---- MODULE Spec2Model ----
(***************************************************************************)
(* Menu-upload ingestion pipeline of apps/api (MenuUploadService, the      *)
(* create_menu_upload route, the canonical allergen registry).             *)
(*                                                                         *)
(* Spec       the create_menu_upload request: create_upload,               *)
(*            process_upload (stage 1, stage 2), the route's commit or     *)
(*            rollback, and a later get_menu_upload.                       *)
(* SpecStore  _store_deduced_ingredients applied to bounded batches and    *)
(*            deduction payloads.                                          *)
(***************************************************************************)
EXTENDS Integers, Sequences, FiniteSets, TLC

\* Python None, for every optional text value.
NULL == "<None>"

(***************************************************************************)
(* Text helpers.  Strings are atomic in TLA+, so str.strip() and           *)
(* str.lower() are tabulated for the texts that occur in the model; every  *)
(* other text of the model is already stripped / lower-case.               *)
(***************************************************************************)
StripTable ==
    ("  " :> "") @@ (" Soup " :> "Soup") @@ (" milk " :> "milk") @@
    (" kiwi " :> "kiwi")

strip(s) == IF s \in DOMAIN StripTable THEN StripTable[s] ELSE s

LowerTable ==
    ("Soup" :> "soup") @@ ("SOUP" :> "soup") @@ ("Cake" :> "cake") @@
    ("CAKE" :> "cake") @@ ("Other" :> "other") @@
    ("Mains" :> "mains") @@ ("MAINS" :> "mains") @@
    ("Uncategorized" :> "uncategorized") @@ ("Archive" :> "archive") @@
    ("Flour" :> "flour") @@ ("Butter" :> "butter") @@
    ("PEANUTS" :> "peanuts") @@ ("Peanut" :> "peanut") @@
    ("MILK" :> "milk") @@ ("Gluten" :> "gluten") @@ ("EN:MILK" :> "en:milk") @@
    ("Kiwi" :> "kiwi") @@ ("Likely" :> "likely") @@ ("HIGH" :> "high") @@
    ("Cereals containing gluten" :> "cereals containing gluten") @@
    ("Crustaceans" :> "crustaceans") @@ ("Eggs" :> "eggs") @@
    ("Fish" :> "fish") @@ ("Peanuts" :> "peanuts") @@
    ("Soybeans" :> "soybeans") @@ ("Milk" :> "milk") @@
    ("Tree nuts" :> "tree nuts") @@ ("Celery" :> "celery") @@
    ("Mustard" :> "mustard") @@ ("Sesame seeds" :> "sesame seeds") @@
    ("Sulphur dioxide & sulphites" :> "sulphur dioxide & sulphites") @@
    ("Lupin" :> "lupin") @@ ("Molluscs" :> "molluscs") @@
    ("Not plant-based (vegan)" :> "not plant-based (vegan)") @@
    ("Not plant-based (vegetarian)" :> "not plant-based (vegetarian)") @@
    ("Wheat" :> "wheat") @@ ("Nuts" :> "nuts") @@ ("Nut mix" :> "nut mix") @@
    ("Direct" :> "direct") @@ ("ARACHIS" :> "arachis")

lower(s) == IF s \in DOMAIN LowerTable THEN LowerTable[s] ELSE s

\* label.lower().replace(' ', '-') of the canonical labels (menu_upload.py:435).
DashTable ==
    ("cereals containing gluten" :> "cereals-containing-gluten") @@
    ("tree nuts" :> "tree-nuts") @@ ("sesame seeds" :> "sesame-seeds") @@
    ("sulphur dioxide & sulphites" :> "sulphur-dioxide-&-sulphites") @@
    ("not plant-based (vegan)" :> "not-plant-based-(vegan)") @@
    ("not plant-based (vegetarian)" :> "not-plant-based-(vegetarian)")

replace_space_dash(s) == IF s \in DOMAIN DashTable THEN DashTable[s] ELSE s

\* The elements of a sequence, as a set.
Range(f) == {f[i] : i \in DOMAIN f}

(***************************************************************************)
(* Canonical allergen registry (allergen_canonical.py).                    *)
(***************************************************************************)
CANONICAL_DATA == <<
    [slug |-> "cereals_gluten", label |-> "Cereals containing gluten",
     legacy_codes |-> <<"en:gluten", "en:wheat", "en:barley", "en:rye",
                        "en:oats", "en:spelt", "en:triticale">>,
     aliases |-> <<"gluten", "wheat", "rye", "barley", "oats", "spelt",
                   "triticale", "cereal", "cereals",
                   "cereals containing gluten">>],
    [slug |-> "crustaceans", label |-> "Crustaceans",
     legacy_codes |-> <<"en:crustaceans", "en:shrimps", "en:crab",
                        "en:lobster">>,
     aliases |-> <<"crustacean", "shrimp", "prawn", "crab", "lobster",
                   "crayfish", "shellfish">>],
    [slug |-> "eggs", label |-> "Eggs",
     legacy_codes |-> <<"en:eggs", "en:egg", "en:albumen">>,
     aliases |-> <<"egg", "eggs", "albumen", "meringue">>],
    [slug |-> "fish", label |-> "Fish",
     legacy_codes |-> <<"en:fish", "en:salmon", "en:cod">>,
     aliases |-> <<"fish", "salmon", "cod", "trout", "haddock">>],
    [slug |-> "peanuts", label |-> "Peanuts",
     legacy_codes |-> <<"en:peanuts", "en:groundnuts", "en:arachis">>,
     aliases |-> <<"peanut", "peanuts", "groundnut", "groundnuts", "satay",
                   "arachis">>],
    [slug |-> "soybeans", label |-> "Soybeans",
     legacy_codes |-> <<"en:soybeans", "en:soya", "en:soy">>,
     aliases |-> <<"soy", "soya", "soybean", "soybeans", "edamame", "tofu",
                   "tempeh", "lecithin">>],
    [slug |-> "milk", label |-> "Milk",
     legacy_codes |-> <<"en:milk", "en:lactose", "en:dairy">>,
     aliases |-> <<"milk", "dairy", "lactose", "cheese", "butter", "cream">>],
    [slug |-> "tree_nuts", label |-> "Tree nuts",
     legacy_codes |-> <<"en:nuts", "en:almonds", "en:hazelnuts", "en:walnuts",
                        "en:cashews", "en:pecans", "en:brazil-nuts",
                        "en:pistachio", "en:macadamia-nut">>,
     aliases |-> <<"nut", "nuts", "almond", "almonds", "hazelnut",
                   "hazelnuts", "walnut", "walnuts", "cashew", "cashews",
                   "pecan", "pecans", "brazil nut", "brazil nuts",
                   "pistachio", "pistachios", "macadamia", "macadamia nut">>],
    [slug |-> "celery", label |-> "Celery",
     legacy_codes |-> <<"en:celery", "en:celeriac">>,
     aliases |-> <<"celery", "celeriac", "apium">>],
    [slug |-> "mustard", label |-> "Mustard",
     legacy_codes |-> <<"en:mustard", "en:mustard-seeds">>,
     aliases |-> <<"mustard", "dijon", "wholegrain", "yellow mustard",
                   "brown mustard">>],
    [slug |-> "sesame", label |-> "Sesame seeds",
     legacy_codes |-> <<"en:sesame", "en:sesame-seeds", "en:tahini">>,
     aliases |-> <<"sesame", "sesame seed", "sesame seeds", "tahini",
                   "gomasio">>],
    [slug |-> "sulphites", label |-> "Sulphur dioxide & sulphites",
     legacy_codes |-> <<"en:sulphur-dioxide-and-sulphites",
                        "en:sulphur-dioxide", "en:sulfites">>,
     aliases |-> <<"sulphite", "sulfite", "sulphites", "sulfites", "so2",
                   "preservative", "e220", "e221", "e222", "e223", "e224",
                   "e226", "e227", "e228">>],
    [slug |-> "lupin", label |-> "Lupin",
     legacy_codes |-> <<"en:lupin", "en:lupine">>,
     aliases |-> <<"lupin", "lupine", "lupini", "lupin flour">>],
    [slug |-> "molluscs", label |-> "Molluscs",
     legacy_codes |-> <<"en:molluscs", "en:mussels", "en:oysters", "en:squid",
                        "en:octopus">>,
     aliases |-> <<"mollusc", "molluscs", "mussel", "mussels", "oyster",
                   "oysters", "clam", "octopus", "squid", "scallop",
                   "snail">>],
    [slug |-> "vegan", label |-> "Not plant-based (vegan)",
     legacy_codes |-> <<>>,
     aliases |-> <<"vegan", "not vegan", "non-vegan", "animal product",
                   "animal-derived">>],
    [slug |-> "vegetarian", label |-> "Not plant-based (vegetarian)",
     legacy_codes |-> <<>>,
     aliases |-> <<"vegetarian", "not vegetarian", "non-vegetarian", "meat",
                   "seafood product">>]
>>

\* No canonical entry (canonicalize_allergen returning None).
NoCanonical == [slug |-> NULL, label |-> NULL, legacy_codes |-> <<>>,
                aliases |-> <<>>]

\* The keys the import-time loop writes into _ALIAS_LOOKUP for one entry.
alias_keys(entry) ==
    {lower(entry.label)} \cup {lower(a) : a \in Range(entry.aliases)}
        \cup {lower(c) : c \in Range(entry.legacy_codes)}

\* _ALIAS_LOOKUP.get(text): the loop assigns in order, so the last entry
\* that writes a key owns it.
ALIAS_LOOKUP(text) ==
    LET owners == {i \in DOMAIN CANONICAL_DATA :
                        text \in alias_keys(CANONICAL_DATA[i])}
    IN IF owners = {} THEN NoCanonical
       ELSE CANONICAL_DATA[CHOOSE i \in owners : \A j \in owners : j <= i]

\* A lookup that resolves every text to the first canonical entry.
canonicalize_allergen_any(value) ==
    IF value = NULL THEN NoCanonical ELSE CANONICAL_DATA[1]

\* A lookup of the text as given, neither trimmed nor lower-cased.
canonicalize_allergen_verbatim(value) ==
    IF value = NULL \/ value = "" THEN NoCanonical ELSE ALIAS_LOOKUP(value)

canonicalize_allergen(value) ==
    IF value = NULL THEN NoCanonical
    ELSE LET text == lower(strip(value))
         IN IF text = "" THEN NoCanonical ELSE ALIAS_LOOKUP(text)

CERTAINTY_NORMALIZATION_RULES ==
    ("direct" :> "direct") @@ ("confirmed" :> "direct") @@
    ("certain" :> "direct") @@ ("definite" :> "direct") @@
    ("explicit" :> "direct") @@ ("sure" :> "direct") @@
    ("inferred" :> "inferred") @@ ("suggested" :> "inferred") @@
    ("estimated" :> "inferred") @@ ("assumed" :> "inferred") @@
    ("high" :> "high") @@ ("very high" :> "high") @@
    ("high confidence" :> "high") @@ ("likely" :> "likely") @@
    ("most likely" :> "likely") @@ ("probable" :> "likely") @@
    ("strong" :> "likely") @@ ("medium" :> "medium") @@
    ("moderate" :> "medium") @@ ("medium confidence" :> "medium") @@
    ("possible" :> "possible") @@ ("potential" :> "possible") @@
    ("maybe" :> "possible") @@ ("uncertain" :> "possible") @@
    ("low" :> "low") @@ ("low confidence" :> "low") @@
    ("speculative" :> "low") @@ ("unknown" :> "unknown") @@
    ("n/a" :> "unknown") @@ ("na" :> "unknown") @@
    ("unspecified" :> "unknown") @@ ("predicted" :> "possible")

\* text.startswith(key) for the texts of the model that are no rule key:
\* the first rule key, in dict order, that is a prefix of the text.
FirstPrefixKey ==
    ("likely present" :> "likely") @@ ("lowish" :> "low")

normalize_certainty(value) ==
    IF value = NULL THEN NULL
    ELSE LET text == lower(strip(value))
         IN IF text = "" THEN NULL
            ELSE IF text \in DOMAIN CERTAINTY_NORMALIZATION_RULES
                 THEN CERTAINTY_NORMALIZATION_RULES[text]
            ELSE IF text \in DOMAIN FirstPrefixKey
                 THEN CERTAINTY_NORMALIZATION_RULES[FirstPrefixKey[text]]
            ELSE NULL


(***************************************************************************)
(* Values.                                                                 *)
(***************************************************************************)
\* Exceptions: [type, code, msg, at], at being the function whose frame
\* raised it (the innermost frame of the traceback that is of this service).
\* No exception in flight.
NoExc == [type |-> "none", code |-> 0, msg |-> "", at |-> ""]

\* 'str' object has no attribute 'get': .get() on a JSON value that is no
\* object.
AttributeError(at) ==
    [type |-> "AttributeError", code |-> 0,
     msg |-> "'str' object has no attribute 'get'", at |-> at]

\* int("abc")
ValueError(at) ==
    [type |-> "ValueError", code |-> 0,
     msg |-> "invalid literal for int() with base 10: 'abc'", at |-> at]

\* response.raise_for_status() / a transport error of httpx.
HTTPStatusError(at) ==
    [type |-> "HTTPStatusError", code |-> 0,
     msg |-> "Server error '500 Internal Server Error'", at |-> at]

HTTPException(status_code, detail, at) ==
    [type |-> "HTTPException", code |-> status_code, msg |-> detail, at |-> at]

\* recipe_id = None: no recipe matched (recipe ids start at 1).
NoRecipe == 0

\* Python's `a or b` on optional texts: None and "" are falsy.
py_or(a, b) == IF a # NULL /\ a # "" THEN a ELSE b

safe_string(value) ==
    IF value = NULL THEN NULL
    ELSE LET text == strip(value)
         IN IF text = "" THEN NULL ELSE text

(***************************************************************************)
(* _normalize_predicted_allergens.  raw is the JSON value of an            *)
(* ingredient's "allergens": [kind, items] with kind "none" (None),        *)
(* "list", "dict" or "scalar" (items then holds the one value); a          *)
(* candidate is [isDict, allergen, name, certainty], a non-object          *)
(* candidate carrying its text in allergen.                                *)
(***************************************************************************)
RECURSIVE normalize_candidates(_, _, _)
normalize_candidates(candidates, normalized, seen) ==
    IF candidates = <<>> THEN normalized
    ELSE LET candidate == Head(candidates)
             allergen_value ==
                 IF candidate.isDict
                 THEN py_or(candidate.allergen, candidate.name)
                 ELSE candidate.allergen
             certainty_value ==
                 IF candidate.isDict THEN candidate.certainty ELSE NULL
             canonical == canonicalize_allergen(allergen_value)
         IN IF canonical.slug = NULL \/ canonical.slug \in seen
            THEN normalize_candidates(Tail(candidates), normalized, seen)
            ELSE normalize_candidates(
                     Tail(candidates),
                     Append(normalized,
                            [allergen |-> canonical.label,
                             certainty |-> normalize_certainty(certainty_value)]),
                     seen \cup {canonical.slug})

\* The serialized payload: present = FALSE is None, otherwise entries is
\* the JSON list that json.dumps wrote and json.loads reads back.
NoAllergens == [present |-> FALSE, entries |-> <<>>]

normalize_predicted_allergens(raw) ==
    IF raw.kind = "none" THEN NoAllergens
    ELSE LET normalized == normalize_candidates(raw.items, <<>>, {})
         IN IF normalized = <<>> THEN NoAllergens
            ELSE [present |-> TRUE, entries |-> normalized]

(***************************************************************************)
(* dal.add_ingredient_allergen on the ingredient_allergen rows.            *)
(***************************************************************************)
add_ingredient_allergen(links, ingredient_id, allergen_code, certainty, source) ==
    IF \E l \in links : /\ l.ingredient_id = ingredient_id
                        /\ l.allergen_code = allergen_code
                        /\ l.source = source
    THEN {IF /\ l.ingredient_id = ingredient_id
             /\ l.allergen_code = allergen_code
             /\ l.source = source
          THEN [l EXCEPT !.certainty = certainty] ELSE l : l \in links}
    ELSE links \cup {[ingredient_id |-> ingredient_id,
                      allergen_code |-> allergen_code,
                      certainty |-> certainty, source |-> source]}

\* The loop over json.loads(allergen_serialized) (menu_upload.py:426-449).
RECURSIVE save_allergen_links(_, _, _)
save_allergen_links(links, ingredient_id, allergens_list) ==
    IF allergens_list = <<>> THEN links
    ELSE LET allergen_entry == Head(allergens_list)
             allergen_name == allergen_entry.allergen
             certainty == allergen_entry.certainty
             allergen_code ==
                 "llm:" \o replace_space_dash(lower(allergen_name))
         IN save_allergen_links(
                add_ingredient_allergen(
                    links, ingredient_id, allergen_code,
                    IF certainty = NULL THEN "possible" ELSE certainty,
                    "llm"),
                ingredient_id, Tail(allergens_list))

(***************************************************************************)
(* _store_deduced_ingredients.                                             *)
(*   recipes   the batch: a sequence of [recipe_id, name]                  *)
(*   payload   the deduction response, a JSON object: [recipes |-> the     *)
(*             value of its "recipes" key], <<>> when missing or empty     *)
(*   entry     [isDict, idKind, recipe_id, name, ingredients]; idKind is   *)
(*             "absent" (no recipe_id / null), "int" or "text" (a value    *)
(*             int() rejects)                                              *)
(*   ingredient [isDict, name, allergens]                                  *)
(*   tables    [ingredients, lines, links, added, exc]: the ingredient,    *)
(*             recipe_ingredient and ingredient_allergen rows, the local   *)
(*             counter `added`, and the exception that ended the call      *)
(***************************************************************************)
\* A lookup that takes every number for the id of a recipe of the batch.
recipe_id_lookup_any(recipes) == Nat

recipe_id_lookup(recipes) == {recipes[i].recipe_id : i \in DOMAIN recipes}

\* recipe_name_lookup.get(key): later recipes overwrite earlier ones.
recipe_name_lookup(recipes, key) ==
    LET named == {i \in DOMAIN recipes :
                      /\ safe_string(recipes[i].name) # NULL
                      /\ lower(safe_string(recipes[i].name)) = key}
    IN IF named = {} THEN NoRecipe
       ELSE recipes[CHOOSE i \in named : \A j \in named : j <= i].recipe_id

\* A matcher that tries the name before the recipe_id.
match_recipe_name_first(recipes, recipe_entry) ==
    LET recipe_name == safe_string(recipe_entry.name)
        by_name == IF recipe_name # NULL
                   THEN recipe_name_lookup(recipes, lower(recipe_name))
                   ELSE NoRecipe
    IN IF by_name # NoRecipe THEN by_name
       ELSE IF /\ recipe_entry.idKind = "int"
               /\ recipe_entry.recipe_id \in recipe_id_lookup(recipes)
            THEN recipe_entry.recipe_id
            ELSE NoRecipe

\* menu_upload.py:381-391, for an entry that is an object with a usable
\* recipe_id.
match_recipe(recipes, recipe_entry) ==
    LET by_id == IF /\ recipe_entry.idKind = "int"
                    /\ recipe_entry.recipe_id \in recipe_id_lookup(recipes)
                 THEN recipe_entry.recipe_id
                 ELSE NoRecipe
        recipe_name == safe_string(recipe_entry.name)
    IN IF by_id # NoRecipe THEN by_id
       ELSE IF recipe_name # NULL
            THEN recipe_name_lookup(recipes, lower(recipe_name))
            ELSE NoRecipe

\* The ids dal.insert_ingredient hands out (autoincrement).
next_ingredient_id(tables) == Len(tables.ingredients) + 1

\* A store that attaches the ingredient line but does not count it.
store_one_ingredient_uncounted(tables, recipe_id, name, ingredient) ==
    LET allergen_serialized == normalize_predicted_allergens(ingredient.allergens)
        ingredient_id == next_ingredient_id(tables)
    IN [tables EXCEPT
           !.ingredients = Append(@, [id |-> ingredient_id, name |-> name,
                                      source |-> "llm"]),
           !.lines = Append(@, [recipe_id |-> recipe_id,
                                ingredient_id |-> ingredient_id,
                                allergens |-> allergen_serialized,
                                confirmed |-> FALSE]),
           !.links = IF allergen_serialized.present
                     THEN save_allergen_links(@, ingredient_id,
                                              allergen_serialized.entries)
                     ELSE @]

\* One ingredient that has a name: insert_ingredient, add_recipe_ingredient
\* and the allergen links (menu_upload.py:401-454).
store_one_ingredient(tables, recipe_id, name, ingredient) ==
    LET allergen_serialized == normalize_predicted_allergens(ingredient.allergens)
        ingredient_id == next_ingredient_id(tables)
    IN [tables EXCEPT
           !.ingredients = Append(@, [id |-> ingredient_id, name |-> name,
                                      source |-> "llm"]),
           !.lines = Append(@, [recipe_id |-> recipe_id,
                                ingredient_id |-> ingredient_id,
                                allergens |-> allergen_serialized,
                                confirmed |-> FALSE]),
           !.links = IF allergen_serialized.present
                     THEN save_allergen_links(@, ingredient_id,
                                              allergen_serialized.entries)
                     ELSE @,
           !.added = @ + 1]

\* The inner loop, menu_upload.py:397-454.
RECURSIVE store_ingredients(_, _, _)
store_ingredients(tables, recipe_id, ingredients) ==
    IF ingredients = <<>> THEN tables
    ELSE LET ingredient == Head(ingredients)
         IN IF ~ingredient.isDict
            THEN [tables EXCEPT !.exc = AttributeError("_store_deduced_ingredients")]
            ELSE LET name == safe_string(ingredient.name)
                 IN IF name = NULL
                    THEN store_ingredients(tables, recipe_id, Tail(ingredients))
                    ELSE store_ingredients(
                             store_one_ingredient(tables, recipe_id, name,
                                                  ingredient),
                             recipe_id, Tail(ingredients))

\* The outer loop, menu_upload.py:380-396.
RECURSIVE store_entries(_, _, _)
store_entries(tables, recipes, recipes_data) ==
    IF recipes_data = <<>> \/ tables.exc # NoExc THEN tables
    ELSE LET recipe_entry == Head(recipes_data)
         IN IF ~recipe_entry.isDict
            THEN [tables EXCEPT !.exc = AttributeError("_store_deduced_ingredients")]
            ELSE IF recipe_entry.idKind = "text"
            THEN [tables EXCEPT !.exc = ValueError("_store_deduced_ingredients")]
            ELSE LET recipe_id == match_recipe(recipes, recipe_entry)
                 IN IF recipe_id = NoRecipe
                    THEN store_entries(tables, recipes, Tail(recipes_data))
                    ELSE store_entries(
                             store_ingredients(tables, recipe_id,
                                               recipe_entry.ingredients),
                             recipes, Tail(recipes_data))

store_deduced_ingredients(tables, recipes, deduction_payload) ==
    store_entries([tables EXCEPT !.added = 0], recipes,
                  deduction_payload.recipes)

(***************************************************************************)
(* The database as one session sees it, and the pipeline's state.          *)
(***************************************************************************)
VARIABLES
    pc,                 \* position of the create_menu_upload request
    settings,           \* which service URLs are configured
    db,                 \* the rows as the request's session sees them
    committed,          \* the rows every other session sees
    extraction_results, \* what _call_extraction_service returned
    created_recipes,    \* process_upload's local list
    batch_no,           \* the deduction batch in progress (1 or 2)
    payload,            \* the deduction response being stored
    added_count,        \* ingredients added by the batches stored so far
    deduction_calls,    \* the _call_recipe_deduction calls made, in order
    exc,                \* the exception in flight or raised to the route
    response,           \* what the route answered
    fetched,            \* what a later get_menu_upload answered
    call,               \* a function of the api called on its own: name, arguments
    rows,               \* the tables such a call reads and writes
    result              \* what such a call returned

pipeline_vars ==
    <<pc, settings, db, committed, extraction_results, created_recipes,
      batch_no, payload, added_count, deduction_calls, exc, response,
      fetched>>

call_vars == <<call, rows, result>>

vars == <<pipeline_vars, call_vars>>

\* No function is called on its own.
NoCall == [fn |-> "none"]
NoRows == [tables |-> "none"]
NoResult == [returned |-> FALSE]

test_batch_size == 5
ArchivePosition == 9999

NoDetails == [key |-> "none", value |-> 0]
Details(key, value) == [key |-> key, value |-> value]

NoStage == [status |-> "absent", started_at |-> FALSE, completed_at |-> FALSE,
            error_message |-> NULL, details |-> NoDetails]

\* MenuUploadStage(...) after the flush: the column default is pending.
NewStage == [NoStage EXCEPT !.status = "pending"]

NoUpload == [status |-> "absent", error_message |-> NULL,
             stage0_completed_at |-> FALSE, stage1_completed_at |-> FALSE,
             stage2_completed_at |-> FALSE]

EmptyDb ==
    [upload |-> NoUpload,
     stages |-> [stage_0 |-> NoStage, stage_1 |-> NoStage, stage_2 |-> NoStage],
     menu |-> FALSE,
     sections |-> <<>>,
     recipes |-> <<>>,
     upload_recipes |-> <<>>,
     ingredients |-> <<>>,
     lines |-> <<>>,
     links |-> {}]

update_stage_record(stage, status_value, details, error) ==
    [stage EXCEPT
        !.status = status_value,
        !.started_at = IF status_value = "running" THEN TRUE ELSE @,
        !.completed_at =
            IF status_value \in {"completed", "failed", "skipped"}
            THEN TRUE ELSE @,
        !.details = IF details # NoDetails THEN details ELSE @,
        !.error_message = IF error # NULL THEN error ELSE @]

(***************************************************************************)
(* dal: menu sections and recipes.                                         *)
(***************************************************************************)
section_by_name(sections, key) ==
    LET found == {i \in DOMAIN sections : lower(sections[i].name) = key}
    IN IF found = {} THEN 0
       ELSE CHOOSE i \in found : \A j \in found : i <= j

ensure_archive_section(d) ==
    IF section_by_name(d.sections, "archive") # 0 THEN d
    ELSE [d EXCEPT !.sections =
              Append(@, [id |-> Len(@) + 1, name |-> "Archive",
                         position |-> ArchivePosition])]

get_primary_menu(d) ==
    IF d.menu THEN d ELSE ensure_archive_section([d EXCEPT !.menu = TRUE])

max_position(sections) ==
    IF sections = <<>> THEN -1
    ELSE CHOOSE p \in {sections[i].position : i \in DOMAIN sections} :
             \A i \in DOMAIN sections : sections[i].position <= p

\* Returns [db, section_id].
get_or_create_menu_section_by_name(d, name) ==
    LET d1 == get_primary_menu(d)
        stripped == strip(IF name = NULL \/ name = "" THEN "Uncategorized" ELSE name)
        cleaned_name == IF stripped = "" THEN "Uncategorized" ELSE stripped
    IN IF lower(cleaned_name) = "archive"
       THEN LET d2 == ensure_archive_section(d1)
            IN [db |-> d2, section_id |-> section_by_name(d2.sections, "archive")]
       ELSE IF section_by_name(d1.sections, lower(cleaned_name)) # 0
       THEN [db |-> d1,
             section_id |-> section_by_name(d1.sections, lower(cleaned_name))]
       ELSE [db |-> [d1 EXCEPT !.sections =
                        Append(@, [id |-> Len(@) + 1, name |-> cleaned_name,
                                   position |-> max_position(@) + 1])],
             section_id |-> Len(d1.sections) + 1]

\* Returns [db, recipe_id].
create_recipe(d, name, status, menu_section_ids) ==
    [db |-> [d EXCEPT !.recipes =
                Append(@, [id |-> Len(@) + 1, name |-> name, status |-> status,
                           section_ids |-> menu_section_ids])],
     recipe_id |-> Len(d.recipes) + 1]

(***************************************************************************)
(* MenuUploadService: the effects of create_upload and process_upload on   *)
(* the rows, as operators.                                                 *)
(***************************************************************************)
\* A create_upload that leaves the upload at the column default.
rows_after_create_upload_pending(d) ==
    [d EXCEPT
        !.upload = [NoUpload EXCEPT !.status = "pending",
                                    !.stage0_completed_at = TRUE],
        !.stages = [stage_0 |-> update_stage_record(
                                    NoStage, "completed",
                                    Details("source", 0), NULL),
                    stage_1 |-> NewStage,
                    stage_2 |-> NewStage]]

\* create_upload, menu_upload.py:92-112.
rows_after_create_upload(d) ==
    [d EXCEPT
        !.upload = [NoUpload EXCEPT !.status = "processing",
                                    !.stage0_completed_at = TRUE],
        !.stages = [stage_0 |-> update_stage_record(
                                    NoStage, "completed",
                                    Details("source", 0), NULL),
                    stage_1 |-> NewStage,
                    stage_2 |-> NewStage]]

\* menu_upload.py:142.
rows_after_stage1_running(d) ==
    [d EXCEPT !.stages.stage_1 =
                  update_stage_record(@, "running", NoDetails, NULL)]

\* An except handler that marks the stage but leaves the upload alone.
rows_after_stage1_failed_stage_only(d, e) ==
    [d EXCEPT !.stages.stage_1 =
                  update_stage_record(@, "failed", NoDetails, e.msg)]

\* menu_upload.py:150-154.
rows_after_stage1_failed(d, e) ==
    [d EXCEPT
        !.stages.stage_1 = update_stage_record(@, "failed", NoDetails, e.msg),
        !.upload.status = "failed",
        !.upload.error_message = "Stage 1 failed: " \o e.msg]

\* One pass of the loop body for an item that has a name,
\* menu_upload.py:162-206.  loop is [db, created, exc].
create_recipe_for_item(loop, name, item) ==
    LET menu_category == safe_string(item.category)
        sec == get_or_create_menu_section_by_name(loop.db, menu_category)
        rec == create_recipe(sec.db, name, "needs_review", <<sec.section_id>>)
    IN [loop EXCEPT
           !.db = [rec.db EXCEPT !.upload_recipes = Append(@, rec.recipe_id)],
           !.created = Append(@, [recipe_id |-> rec.recipe_id, name |-> name])]

\* menu_upload.py:157-206: an item is [isDict, name, title, category].
RECURSIVE create_recipes_for_items(_, _)
create_recipes_for_items(loop, items) ==
    IF items = <<>> THEN loop
    ELSE LET item == Head(items)
         IN IF ~item.isDict
            THEN [loop EXCEPT !.exc = AttributeError("process_upload")]
            ELSE LET name == safe_string(py_or(item.name, item.title))
                 IN IF name = NULL
                    THEN create_recipes_for_items(loop, Tail(items))
                    ELSE create_recipes_for_items(
                             create_recipe_for_item(loop, name, item),
                             Tail(items))

\* menu_upload.py:208-213.
rows_after_stage1_completed(d, created) ==
    [d EXCEPT
        !.upload.stage1_completed_at = TRUE,
        !.stages.stage_1 =
            update_stage_record(@, "completed",
                                Details("recipes_created", Len(created)), NULL)]

\* menu_upload.py:218.
rows_after_stage2_running(d) ==
    [d EXCEPT !.stages.stage_2 =
                  update_stage_record(@, "running", NoDetails, NULL)]

\* menu_upload.py:286-291.
rows_after_stage2_skipped(d) ==
    [d EXCEPT
        !.stages.stage_2 = update_stage_record(@, "skipped",
                                               Details("reason", 0), NULL),
        !.upload.stage2_completed_at = TRUE]

\* An except handler that marks stage 2 but leaves the upload alone.
rows_after_stage2_failed_stage_only(d, e) ==
    [d EXCEPT !.stages.stage_2 =
                  update_stage_record(@, "failed", NoDetails, e.msg)]

\* menu_upload.py:270-274.
rows_after_stage2_failed(d, e) ==
    [d EXCEPT
        !.stages.stage_2 = update_stage_record(@, "failed", NoDetails, e.msg),
        !.upload.status = "failed",
        !.upload.error_message = "Stage 2 failed: " \o e.msg]

\* menu_upload.py:277-282.
rows_after_stage2_completed(d, added) ==
    [d EXCEPT
        !.upload.stage2_completed_at = TRUE,
        !.stages.stage_2 =
            update_stage_record(@, "completed",
                                Details("ingredients_added", added), NULL)]

\* menu_upload.py:294-295.
rows_after_upload_completed(d) ==
    [d EXCEPT !.upload.status = "completed", !.upload.error_message = NULL]

\* A batching that sends every recipe in both calls.
deduction_batch_all(created, n) == created

\* The recipes of deduction call n, menu_upload.py:226-258.
deduction_batch(created, n) ==
    IF Len(created) <= test_batch_size THEN created
    ELSE IF n = 1 THEN SubSeq(created, 1, test_batch_size)
    ELSE SubSeq(created, test_batch_size + 1, Len(created))

\* The number of deduction calls process_upload makes when none fails.
deduction_batches(created) ==
    IF Len(created) <= test_batch_size THEN 1 ELSE 2

tables_of(d) ==
    [ingredients |-> d.ingredients, lines |-> d.lines, links |-> d.links,
     added |-> 0, exc |-> NoExc]

rows_with_tables(d, tables) ==
    [d EXCEPT !.ingredients = tables.ingredients, !.lines = tables.lines,
              !.links = tables.links]

(***************************************************************************)
(* Inputs.                                                                 *)
(***************************************************************************)
MaxShort == 3     \* extraction results of every shape up to this length
MaxItems == 6     \* longer extraction results, of named items only
MaxEntries == 2   \* recipe entries in a deduction response (SpecStore)

SeqsUpTo(S, n) == UNION {[1..k -> S] : k \in 0..n}

ItemSoup == [isDict |-> TRUE, name |-> "Soup", title |-> NULL, category |-> NULL]
ItemCake == [isDict |-> TRUE, name |-> NULL, title |-> "Cake", category |-> "Mains"]
ItemNameless == [isDict |-> TRUE, name |-> NULL, title |-> NULL, category |-> "Mains"]
ItemBlank == [isDict |-> TRUE, name |-> "  ", title |-> "Cake", category |-> NULL]
ItemNotObject == [isDict |-> FALSE, name |-> NULL, title |-> NULL, category |-> NULL]

ItemKinds == {ItemSoup, ItemCake, ItemNameless, ItemBlank, ItemNotObject}

LongResult(n) == [i \in 1..n |-> IF i % 2 = 1 THEN ItemSoup ELSE ItemCake]

ExtractionResults ==
    SeqsUpTo(ItemKinds, MaxShort) \cup {LongResult(n) : n \in (MaxShort + 1)..MaxItems}

\* Allergen values of an ingredient, as the deduction service may send them.
Marker(text) == [isDict |-> FALSE, allergen |-> text, name |-> NULL, certainty |-> NULL]
MarkerObject(allergen, name, certainty) ==
    [isDict |-> TRUE, allergen |-> allergen, name |-> name, certainty |-> certainty]

RawNone == [kind |-> "none", items |-> <<>>]
RawList(items) == [kind |-> "list", items |-> items]
RawScalar(text) == [kind |-> "scalar", items |-> <<Marker(text)>>]
RawDict(obj) == [kind |-> "dict", items |-> <<obj>>]

RawPool ==
    {RawNone,
     RawList(<<>>),
     RawList(<<MarkerObject("milk", NULL, "Likely")>>),
     RawList(<<MarkerObject("kiwi", NULL, "direct")>>),
     RawList(<<MarkerObject("Gluten", NULL, "HIGH"), Marker("wheat")>>),
     RawList(<<Marker(" kiwi "), MarkerObject(NULL, "PEANUTS", "lowish")>>),
     RawList(<<MarkerObject("cereals_gluten", NULL, NULL),
               MarkerObject("tree_nuts", NULL, "bogus")>>),
     RawScalar("EN:MILK"),
     RawDict(MarkerObject("", "Sesame seeds", NULL))}

Ingredient(name, raw) == [isDict |-> TRUE, name |-> name, allergens |-> raw]
IngredientNotObject == [isDict |-> FALSE, name |-> NULL, allergens |-> RawNone]

IngredientLists ==
    {<<Ingredient("Flour", raw)>> : raw \in RawPool}
    \cup {<<>>,
          <<IngredientNotObject>>,
          <<Ingredient(NULL, RawList(<<Marker("milk")>>)),
            Ingredient("Butter", RawList(<<Marker("milk")>>))>>,
          <<Ingredient("Butter", RawList(<<Marker("milk")>>)),
            IngredientNotObject>>}

Entry(idKind, recipe_id, name, ingredients) ==
    [isDict |-> TRUE, idKind |-> idKind, recipe_id |-> recipe_id,
     name |-> name, ingredients |-> ingredients]
EntryNotObject ==
    [isDict |-> FALSE, idKind |-> "absent", recipe_id |-> 0, name |-> NULL,
     ingredients |-> <<>>]

PlainFlour == <<Ingredient("Flour", RawNone)>>

\* recipe_id values of a response entry: none, a text int() rejects, the
\* ids of the first recipes, an id of the second batch.
EntryIds ==
    {<<"absent", 0>>, <<"text", 0>>, <<"int", 1>>, <<"int", 2>>,
     <<"int", test_batch_size + 1>>}

EntryNames == {NULL, "SOUP", "Other"}

EntryPool ==
    {Entry(id[1], id[2], name, PlainFlour) : id \in EntryIds, name \in EntryNames}
    \cup {Entry("int", 1, NULL, ingredients) : ingredients \in IngredientLists}
    \cup {EntryNotObject}

Payload(entries) == [recipes |-> entries]
NoPayload == Payload(<<>>)

\* The deduction responses the whole pipeline is run against.
PipelinePayloads ==
    {NoPayload,
     Payload(<<Entry("int", 1, "Other", PlainFlour)>>),
     Payload(<<Entry("absent", 0, "CAKE",
                     <<Ingredient("Butter", RawList(<<Marker("milk")>>))>>)>>),
     Payload(<<Entry("int", 1, "CAKE", PlainFlour),
               Entry("int", test_batch_size + 1, NULL,
                     <<Ingredient("Flour", RawList(<<Marker("kiwi")>>))>>)>>),
     Payload(<<EntryNotObject>>),
     Payload(<<Entry("text", 0, "Soup", PlainFlour)>>),
     Payload(<<Entry("int", 1, NULL,
                     <<Ingredient("Butter", RawNone), IngredientNotObject>>)>>)}

\* Named items only: the recipes a stage-2 batch can hold.
StoreItemLists ==
    {<<ItemSoup>>, <<ItemSoup, ItemCake>>, <<ItemCake, ItemSoup, ItemSoup>>}

NoResponse == [status_code |-> 0, detail |-> "", created_recipe_ids |-> <<>>]
NoFetch == [status_code |-> 0, upload |-> NoUpload, stages |-> EmptyDb.stages]

DeductionCall(recipes, posted, stored_before, failed_before) ==
    [recipes |-> recipes, posted |-> posted, stored_before |-> stored_before,
     failed_before |-> failed_before]

(***************************************************************************)
(* allergen_canonical.py: label lookup and UI certainty.                   *)
(***************************************************************************)
\* _CANONICAL_BY_LABEL.get(key): the dict comprehension keeps the last
\* entry that has the label.
CANONICAL_BY_LABEL(key) ==
    LET owners == {i \in DOMAIN CANONICAL_DATA :
                        lower(CANONICAL_DATA[i].label) = key}
    IN IF owners = {} THEN NoCanonical
       ELSE CANONICAL_DATA[CHOOSE i \in owners : \A j \in owners : j <= i]

canonical_allergen_from_label(label) ==
    IF label = NULL \/ label = "" THEN NoCanonical
    ELSE CANONICAL_BY_LABEL(lower(strip(label)))

UI_CERTAINTY_MAP ==
    ("direct" :> "confirmed") @@ ("high" :> "likely") @@
    ("likely" :> "likely") @@ ("probable" :> "likely") @@
    ("inferred" :> "likely") @@ ("medium" :> "likely") @@
    ("possible" :> "possible") @@ ("low" :> "possible") @@
    ("unknown" :> "possible")

\* A certainty_to_ui that hands the stored value through.
certainty_to_ui_identity(value) == value

certainty_to_ui(value) ==
    IF value = NULL \/ value = "" THEN "predicted"
    ELSE IF value \in DOMAIN UI_CERTAINTY_MAP THEN UI_CERTAINTY_MAP[value]
    ELSE "predicted"

\* `a or b` on canonical entries: None is falsy.
canonical_or(a, b) == IF a.slug # NULL THEN a ELSE b

(***************************************************************************)
(* dal._process_ingredient_allergens.  A stored link is [code, name,       *)
(* certainty], code and name being those of its allergen row.  The         *)
(* override payload is the recipe_ingredient.allergens text, given by what *)
(* it holds: kind "none" (None), "blank" (empty or white text), "list",    *)
(* "dict" (a JSON object, the one element of items), "text" (no JSON, or a *)
(* JSON string: the one element of items carries the text), "null" and     *)
(* "number" (JSON null, a JSON number).  An override entry is [kind, code, *)
(* allergen, name, certainty] with kind "dict", "text" (allergen holds the *)
(* text) or "number" (a JSON number as a list element).                    *)
(***************************************************************************)
allergen_dict(code, name, certainty, canonical) ==
    [code |-> code, name |-> name, certainty |-> certainty,
     canonical_code |-> canonical.slug, canonical_name |-> canonical.label,
     family_code |-> NULL, family_name |-> NULL, marker_type |-> NULL]

\* A base list that keeps every stored link, repeated codes included.
base_allergens_keep_all(ingredient_allergens_list, ingredient_allergens, ingredient_codes) ==
    [i \in DOMAIN ingredient_allergens_list |->
        LET ia == ingredient_allergens_list[i]
            canonical ==
                canonical_or(canonicalize_allergen(ia.code),
                    canonical_or(canonical_allergen_from_label(ia.name),
                                 canonicalize_allergen(ia.name)))
        IN allergen_dict(IF canonical.slug # NULL THEN canonical.slug ELSE ia.code,
                         IF canonical.slug # NULL THEN canonical.label ELSE ia.name,
                         certainty_to_ui(ia.certainty), canonical)]

\* dal.py:1218-1256.
RECURSIVE base_allergens(_, _, _)
base_allergens(ingredient_allergens_list, ingredient_allergens, ingredient_codes) ==
    IF ingredient_allergens_list = <<>> THEN ingredient_allergens
    ELSE LET ia == Head(ingredient_allergens_list)
             canonical ==
                 canonical_or(canonicalize_allergen(ia.code),
                     canonical_or(canonical_allergen_from_label(ia.name),
                                  canonicalize_allergen(ia.name)))
             certainty_value == certainty_to_ui(ia.certainty)
             code == IF canonical.slug # NULL THEN canonical.slug ELSE ia.code
             name == IF canonical.slug # NULL THEN canonical.label ELSE ia.name
             code_key == lower(code)
         IN IF code = NULL \/ code = "" \/ code_key \in ingredient_codes
            THEN base_allergens(Tail(ingredient_allergens_list),
                                ingredient_allergens, ingredient_codes)
            ELSE base_allergens(
                     Tail(ingredient_allergens_list),
                     Append(ingredient_allergens,
                            allergen_dict(code, name, certainty_value, canonical)),
                     ingredient_codes \cup {code_key})

\* add_override_entry, dal.py:1276-1296; acc is [list, codes, exc].
add_override_entry(acc, label, certainty) ==
    LET canonical == canonical_or(canonical_allergen_from_label(label),
                                  canonicalize_allergen(label))
        code_key == lower(canonical.slug)
    IN IF canonical.slug = NULL \/ code_key \in acc.codes THEN acc
       ELSE [acc EXCEPT
                !.list = Append(@, allergen_dict(canonical.slug, canonical.label,
                                                 certainty_to_ui(certainty),
                                                 canonical)),
                !.codes = @ \cup {code_key}]

\* The label and certainty read from one element, dal.py:1300-1305.
override_label(entry) ==
    IF entry.kind = "dict"
    THEN py_or(entry.code, py_or(entry.allergen, entry.name))
    ELSE entry.allergen

override_certainty(entry) ==
    IF entry.kind = "dict" THEN entry.certainty ELSE NULL

\* dal.py:1298-1306.  A JSON number is truthy and no str:
\* canonical_allergen_from_label calls label.strip() on it.
RECURSIVE override_entries(_, _)
override_entries(acc, entries) ==
    IF entries = <<>> THEN acc
    ELSE LET entry == Head(entries)
         IN IF entry.kind = "number"
            THEN [acc EXCEPT !.exc = AttributeError("canonical_allergen_from_label")]
            ELSE override_entries(
                     add_override_entry(acc, override_label(entry),
                                        override_certainty(entry)),
                     Tail(entries))

\* A reconciliation that appends the override entries to the stored list.
process_ingredient_allergens_merging(ingredient_allergens_list, allergens_payload) ==
    LET ingredient_allergens == base_allergens(ingredient_allergens_list, <<>>, {})
        start == [list |-> <<>>, codes |-> {}, exc |-> NoExc]
        override ==
            IF allergens_payload.kind \in {"list", "dict", "text"}
            THEN override_entries(start, allergens_payload.items)
            ELSE start
    IN [returned |-> TRUE, value |-> ingredient_allergens \o override.list,
        exc |-> NoExc]

\* Returns [returned, value, exc].
process_ingredient_allergens(ingredient_allergens_list, allergens_payload) ==
    LET ingredient_allergens == base_allergens(ingredient_allergens_list, <<>>, {})
        start == [list |-> <<>>, codes |-> {}, exc |-> NoExc]
        override ==
            IF allergens_payload.kind \in {"list", "dict", "text"}
            THEN override_entries(start, allergens_payload.items)
            ELSE start
    IN IF allergens_payload.kind = "none"
       THEN [returned |-> TRUE, value |-> ingredient_allergens, exc |-> NoExc]
       ELSE IF override.exc # NoExc
       THEN [returned |-> FALSE, value |-> <<>>, exc |-> override.exc]
       ELSE [returned |-> TRUE, value |-> override.list, exc |-> NoExc]

(***************************************************************************)
(* services/gemini_client.py: the response text of the model is a          *)
(* sequence of characters.  An element of the sequence is one character,   *)
(* or a run of letters, which every test of the code treats as it treats   *)
(* one letter.                                                             *)
(***************************************************************************)
QUOTE == "\""
BACKSLASH == "\\"
\* The three grave accents of a code fence, and one grave accent.
FENCE == "fence"
GRAVE == "grave"
NEWLINE == "\n"
Digits == {"0", "1", "2"}
WhiteSpace == {" ", NEWLINE}

\* text[i], or "" past the end of the text.
char_at(text, i) == IF i \in DOMAIN text THEN text[i] ELSE ""

\* str.strip(): the text without its leading and trailing white space.
RECURSIVE lstrip_chars(_, _)
lstrip_chars(text, chars) ==
    IF text # <<>> /\ Head(text) \in chars THEN lstrip_chars(Tail(text), chars)
    ELSE text

RECURSIVE rstrip_chars(_, _)
rstrip_chars(text, chars) ==
    IF text # <<>> /\ text[Len(text)] \in chars
    THEN rstrip_chars(SubSeq(text, 1, Len(text) - 1), chars)
    ELSE text

strip_chars(text, chars) == rstrip_chars(lstrip_chars(text, chars), chars)

strip_text(text) == strip_chars(text, WhiteSpace)

\* The JSON decoder of json.loads, as a recogniser: each operator takes the
\* position a construct starts at and returns the position after it, 0
\* when the text holds no such construct there.
RECURSIVE skip_ws(_, _)
skip_ws(text, i) ==
    IF char_at(text, i) \in WhiteSpace THEN skip_ws(text, i + 1) ELSE i

RECURSIVE string_end(_, _)
string_end(text, i) ==
    IF i > Len(text) THEN 0
    ELSE IF text[i] = QUOTE THEN i + 1
    ELSE IF text[i] = BACKSLASH
         THEN IF i + 1 > Len(text) THEN 0 ELSE string_end(text, i + 2)
    ELSE string_end(text, i + 1)

RECURSIVE value_end(_, _)
RECURSIVE members_end(_, _)
RECURSIVE elements_end(_, _)

value_end(text, i) ==
    LET c == char_at(text, i)
    IN IF c = "{"
       THEN LET j == skip_ws(text, i + 1)
            IN IF char_at(text, j) = "}" THEN j + 1 ELSE members_end(text, j)
       ELSE IF c = "["
       THEN LET j == skip_ws(text, i + 1)
            IN IF char_at(text, j) = "]" THEN j + 1 ELSE elements_end(text, j)
       ELSE IF c = QUOTE THEN string_end(text, i + 1)
       ELSE IF c \in Digits THEN i + 1
       ELSE 0

\* "key": value, ... } from the key at i on.
members_end(text, i) ==
    IF char_at(text, i) # QUOTE THEN 0
    ELSE LET k == string_end(text, i + 1)
             colon == skip_ws(text, k)
         IN IF k = 0 \/ char_at(text, colon) # ":" THEN 0
            ELSE LET v == value_end(text, skip_ws(text, colon + 1))
                     n == skip_ws(text, v)
                 IN IF v = 0 THEN 0
                    ELSE IF char_at(text, n) = "," THEN members_end(text, skip_ws(text, n + 1))
                    ELSE IF char_at(text, n) = "}" THEN n + 1
                    ELSE 0

\* value, ... ] from the value at i on.
elements_end(text, i) ==
    LET v == value_end(text, i)
        n == skip_ws(text, v)
    IN IF v = 0 THEN 0
       ELSE IF char_at(text, n) = "," THEN elements_end(text, skip_ws(text, n + 1))
       ELSE IF char_at(text, n) = "]" THEN n + 1
       ELSE 0

\* json.loads(text) raises no JSONDecodeError.
json_valid(text) ==
    LET s == skip_ws(text, 1)
        e == value_end(text, s)
    IN e # 0 /\ skip_ws(text, e) = Len(text) + 1

\* The elements of the JSON array that starts at i - 1: the texts of its
\* values, in order.  A parsed value is kept as its text.
RECURSIVE array_values(_, _, _)
array_values(text, i, acc) ==
    IF char_at(text, i) = "]" THEN acc
    ELSE LET v == value_end(text, i)
             n == skip_ws(text, v)
         IN IF char_at(text, n) = ","
            THEN array_values(text, skip_ws(text, n + 1),
                              Append(acc, SubSeq(text, i, v - 1)))
            ELSE Append(acc, SubSeq(text, i, v - 1))

json_list(text) ==
    LET s == strip_text(text) IN array_values(s, skip_ws(s, 2), <<>>)

\* The members of the JSON object that starts at i - 1, as [key, value]
\* texts in order.
RECURSIVE object_members(_, _, _)
object_members(text, i, acc) ==
    IF char_at(text, i) = "}" THEN acc
    ELSE LET k == string_end(text, i + 1)
             colon == skip_ws(text, k)
             s == skip_ws(text, colon + 1)
             v == value_end(text, s)
             n == skip_ws(text, v)
             member == [key |-> SubSeq(text, i + 1, k - 2),
                        value |-> SubSeq(text, s, v - 1)]
         IN IF char_at(text, n) = ","
            THEN object_members(text, skip_ws(text, n + 1), Append(acc, member))
            ELSE Append(acc, member)

\* parsed.get(key) of a JSON object given as text: <<>> stands for None.
dict_get(text, key) ==
    LET s == strip_text(text)
        members == object_members(s, skip_ws(s, 2), <<>>)
        found == {i \in DOMAIN members : members[i].key = key}
    IN IF found = {} THEN <<>>
       ELSE members[CHOOSE i \in found : \A j \in found : j <= i].value

\* bool(value) of a parsed value given as text.
truthy(value) ==
    value \notin {<<>>, <<"[", "]">>, <<"{", "}">>, <<QUOTE, QUOTE>>, <<"0">>}

\* re.search(r'(\[.*\]|\{.*\})', cleaned, re.DOTALL).group(1), <<>> when
\* there is no match: from the leftmost bracket or brace that has its
\* closing character somewhere after it, to the last such closing character.
regex_json(cleaned) ==
    LET closer(c) == IF c = "[" THEN "]" ELSE "}"
        last(c, i) == {j \in DOMAIN cleaned : j > i /\ cleaned[j] = closer(c)}
        starts == {i \in DOMAIN cleaned :
                      cleaned[i] \in {"[", "{"} /\ last(cleaned[i], i) # {}}
    IN IF starts = {} THEN <<>>
       ELSE LET i == CHOOSE x \in starts : \A y \in starts : x <= y
                ends == last(cleaned[i], i)
                j == CHOOSE x \in ends : \A y \in ends : y <= x
            IN SubSeq(cleaned, i, j)

\* One character of the loop of _extract_partial_json_array,
\* gemini_client.py:187-230; scan is [items, depth, current_item,
\* in_string, escape_next].
scan_char(scan, char) ==
    LET added == [scan EXCEPT !.current_item = Append(@, char)]
    IN IF scan.escape_next THEN [added EXCEPT !.escape_next = FALSE]
       ELSE IF char = BACKSLASH THEN [added EXCEPT !.escape_next = TRUE]
       ELSE IF char = QUOTE THEN [added EXCEPT !.in_string = ~@]
       ELSE IF scan.in_string THEN added
       ELSE IF char = "{" THEN [added EXCEPT !.depth = @ + 1]
       ELSE IF char = "}"
            THEN IF scan.depth - 1 # 0 THEN [added EXCEPT !.depth = @ - 1]
                 ELSE IF json_valid(strip_text(added.current_item))
                      THEN [added EXCEPT
                               !.depth = 0,
                               !.items = Append(@, strip_text(added.current_item)),
                               !.current_item = <<>>]
                      ELSE [added EXCEPT !.depth = 0, !.current_item = <<>>]
       ELSE IF char = ","
            THEN IF scan.depth = 0 THEN [scan EXCEPT !.current_item = <<>>]
                 ELSE added
       ELSE added

\* The loop over content[first..last].  The range is halved and the state
\* after the first half is bound as a value before the second half is
\* scanned, which keeps the evaluation of a long text shallow; the
\* characters are still taken one by one, in order.
RECURSIVE scan_chars(_, _, _, _)
scan_chars(scan, content, first, last) ==
    IF first > last THEN scan
    ELSE IF first = last THEN scan_char(scan, content[first])
    ELSE LET middle == (first + last) \div 2
         IN CHOOSE after \in
                {scan_chars(half, content, middle + 1, last) :
                    half \in {scan_chars(scan, content, first, middle)}} : TRUE

\* Returns the items, <<>> standing for None as well.
extract_partial_json_array(text) ==
    IF char_at(strip_text(text), 1) # "[" THEN <<>>
    ELSE scan_chars([items |-> <<>>, depth |-> 0, current_item |-> <<>>,
                     in_string |-> FALSE, escape_next |-> FALSE],
                    strip_text(text), 2, Len(strip_text(text))).items

\* gemini_client.py:112-125: the text without its code fence.
clean_text(text_out) ==
    LET stripped == strip_text(text_out)
        newlines == {i \in DOMAIN stripped : stripped[i] = NEWLINE}
        first_newline ==
            IF newlines = {} THEN 0
            ELSE CHOOSE i \in newlines : \A j \in newlines : i <= j
        opened ==
            IF char_at(stripped, 1) = FENCE /\ first_newline > 1
            THEN SubSeq(stripped, first_newline + 1, Len(stripped))
            ELSE stripped
        closed ==
            IF char_at(stripped, 1) = FENCE /\ char_at(opened, Len(opened)) = FENCE
            THEN strip_text(SubSeq(opened, 1, Len(opened) - 1))
            ELSE opened
    IN strip_text(strip_chars(closed, {FENCE, GRAVE}))

\* gemini_client.py:156-161: the list returned for a parsed value.
items_of_parsed(parsed) ==
    LET s == strip_text(parsed)
    IN IF char_at(s, 1) = "[" THEN json_list(s)
       ELSE IF char_at(s, 1) = "{"
       THEN LET recipes == dict_get(s, <<"recipes">>)
                items == IF truthy(recipes) THEN recipes
                         ELSE dict_get(s, <<"items">>)
            IN IF char_at(items, 1) = "[" THEN json_list(items) ELSE <<>>
       ELSE <<>>

\* extract_from_payload from the response text on, gemini_client.py:103-161.
extract_from_payload(text_out) ==
    IF text_out = <<>> THEN <<>>
    ELSE IF json_valid(text_out) THEN items_of_parsed(text_out)
    ELSE LET cleaned == clean_text(text_out)
             json_match == regex_json(cleaned)
         IN IF json_valid(cleaned) THEN items_of_parsed(cleaned)
            ELSE IF json_match = <<>> THEN <<>>
            ELSE IF json_valid(json_match) THEN items_of_parsed(json_match)
            ELSE IF char_at(strip_text(cleaned), 1) = "["
                 THEN extract_partial_json_array(cleaned)
            ELSE <<>>

\* routes.py:41-58: the marker ids and labels the deduction prompt lists.
CANONICAL_ALLERGEN_MARKERS_PROMPT ==
    <<[id |-> "cereals_gluten", label |-> "Cereals containing gluten"],
      [id |-> "crustaceans", label |-> "Crustaceans"],
      [id |-> "eggs", label |-> "Eggs"],
      [id |-> "fish", label |-> "Fish"],
      [id |-> "peanuts", label |-> "Peanuts"],
      [id |-> "soybeans", label |-> "Soybeans"],
      [id |-> "milk", label |-> "Milk"],
      [id |-> "tree_nuts", label |-> "Tree nuts"],
      [id |-> "celery", label |-> "Celery"],
      [id |-> "mustard", label |-> "Mustard"],
      [id |-> "sesame", label |-> "Sesame seeds"],
      [id |-> "sulphites", label |-> "Sulphur dioxide & sulphites"],
      [id |-> "lupin", label |-> "Lupin"],
      [id |-> "molluscs", label |-> "Molluscs"],
      [id |-> "vegan", label |-> "Not plant-based (vegan)"],
      [id |-> "vegetarian", label |-> "Not plant-based (vegetarian)"]>>

(***************************************************************************)
(* Spec: one create_menu_upload request.                                   *)
(***************************************************************************)
Init ==
    /\ pc = "start"
    /\ settings \in [extraction_url : BOOLEAN, recipe_deduction_url : BOOLEAN]
    /\ db = EmptyDb
    /\ committed = EmptyDb
    /\ extraction_results = <<>>
    /\ created_recipes = <<>>
    /\ batch_no = 0
    /\ payload = NoPayload
    /\ added_count = 0
    /\ deduction_calls = <<>>
    /\ exc = NoExc
    /\ response = NoResponse
    /\ fetched = NoFetch
    /\ call = NoCall
    /\ rows = NoRows
    /\ result = NoResult

\* create_upload rejecting the form (menu_upload.py:82-88).
create_upload_rejected ==
    /\ pc = "start"
    /\ \E detail \in {"URL is required for URL uploads", "File upload is required"} :
           exc' = HTTPException(400, detail, "create_upload")
    /\ pc' = "create_raised"
    /\ UNCHANGED <<settings, db, committed, extraction_results, created_recipes,
                   batch_no, payload, added_count, deduction_calls, response,
                   fetched>>
    /\ UNCHANGED call_vars

create_upload ==
    /\ pc = "start"
    /\ db' = rows_after_create_upload(db)
    /\ pc' = "created"
    /\ UNCHANGED <<settings, committed, extraction_results, created_recipes,
                   batch_no, payload, added_count, deduction_calls, exc,
                   response, fetched>>
    /\ UNCHANGED call_vars

\* process_upload up to the extraction call (menu_upload.py:131-143).
process_upload_stage1_running ==
    /\ pc = "created"
    /\ db' = rows_after_stage1_running(db)
    /\ pc' = "extracting"
    /\ UNCHANGED <<settings, committed, extraction_results, created_recipes,
                   batch_no, payload, added_count, deduction_calls, exc,
                   response, fetched>>
    /\ UNCHANGED call_vars

\* _call_extraction_service raising: no URL, an HTTP error, a response
\* whose recipes are no list.
call_extraction_service_raises ==
    /\ pc = "extracting"
    /\ IF ~settings.extraction_url
       THEN exc' = HTTPException(503, "LLM extraction service not configured",
                                 "_call_extraction_service")
       ELSE exc' \in {HTTPStatusError("_call_extraction_service"),
                      HTTPException(502, "Unexpected response format from extraction service",
                                    "_call_extraction_service")}
    /\ pc' = "stage1_raising"
    /\ UNCHANGED <<settings, db, committed, extraction_results, created_recipes,
                   batch_no, payload, added_count, deduction_calls, response,
                   fetched>>
    /\ UNCHANGED call_vars

call_extraction_service_returns ==
    /\ pc = "extracting"
    /\ settings.extraction_url
    /\ extraction_results' \in ExtractionResults
    /\ pc' = "stage1_items"
    /\ UNCHANGED <<settings, db, committed, created_recipes, batch_no, payload,
                   added_count, deduction_calls, exc, response, fetched>>
    /\ UNCHANGED call_vars

\* The except handler of stage 1 (menu_upload.py:150-155).
process_upload_stage1_failed ==
    /\ pc = "stage1_raising"
    /\ db' = rows_after_stage1_failed(db, exc)
    /\ pc' = "process_raised"
    /\ UNCHANGED <<settings, committed, extraction_results, created_recipes,
                   batch_no, payload, added_count, deduction_calls, exc,
                   response, fetched>>
    /\ UNCHANGED call_vars

\* The item loop and the completion of stage 1 (menu_upload.py:157-214).
process_upload_create_recipes ==
    /\ pc = "stage1_items"
    /\ LET loop == create_recipes_for_items(
                       [db |-> db, created |-> <<>>, exc |-> NoExc],
                       extraction_results)
       IN /\ created_recipes' = loop.created
          /\ exc' = loop.exc
          /\ IF loop.exc # NoExc
             THEN /\ db' = loop.db
                  /\ pc' = "process_raised"
             ELSE /\ db' = rows_after_stage1_completed(loop.db, loop.created)
                  /\ pc' = "stage1_done"
    /\ UNCHANGED <<settings, committed, extraction_results, batch_no, payload,
                   added_count, deduction_calls, response, fetched>>
    /\ UNCHANGED call_vars

\* Stage 2 started whether or not stage 1 created a recipe.
process_upload_stage2_running_unguarded ==
    /\ pc = "stage1_done"
    /\ db' = rows_after_stage2_running(db)
    /\ batch_no' = 1
    /\ pc' = "deducing"
    /\ UNCHANGED <<settings, committed, extraction_results, created_recipes,
                   payload, added_count, deduction_calls, exc, response, fetched>>
    /\ UNCHANGED call_vars

\* menu_upload.py:217-219.
process_upload_stage2_running ==
    /\ pc = "stage1_done"
    /\ created_recipes # <<>>
    /\ db' = rows_after_stage2_running(db)
    /\ batch_no' = 1
    /\ pc' = "deducing"
    /\ UNCHANGED <<settings, committed, extraction_results, created_recipes,
                   payload, added_count, deduction_calls, exc, response, fetched>>
    /\ UNCHANGED call_vars

\* menu_upload.py:284-292.
process_upload_stage2_skipped ==
    /\ pc = "stage1_done"
    /\ created_recipes = <<>>
    /\ db' = rows_after_stage2_skipped(db)
    /\ pc' = "finishing"
    /\ UNCHANGED <<settings, committed, extraction_results, created_recipes,
                   batch_no, payload, added_count, deduction_calls, exc,
                   response, fetched>>
    /\ UNCHANGED call_vars

\* What every _call_recipe_deduction call records.
this_call ==
    DeductionCall(deduction_batch(created_recipes, batch_no),
                  settings.recipe_deduction_url, batch_no - 1, exc # NoExc)

call_recipe_deduction_raises ==
    /\ pc = "deducing"
    /\ deduction_calls' = Append(deduction_calls, this_call)
    /\ IF ~settings.recipe_deduction_url
       THEN exc' = HTTPException(503, "LLM recipe deduction service not configured",
                                 "_call_recipe_deduction")
       ELSE exc' \in {HTTPStatusError("_call_recipe_deduction"),
                      HTTPException(502, "Unexpected response from recipe deduction service",
                                    "_call_recipe_deduction")}
    /\ pc' = "stage2_raising"
    /\ UNCHANGED <<settings, db, committed, extraction_results, created_recipes,
                   batch_no, payload, added_count, response, fetched>>
    /\ UNCHANGED call_vars

call_recipe_deduction_returns ==
    /\ pc = "deducing"
    /\ settings.recipe_deduction_url
    /\ deduction_calls' = Append(deduction_calls, this_call)
    /\ payload' \in PipelinePayloads
    /\ pc' = "storing"
    /\ UNCHANGED <<settings, db, committed, extraction_results, created_recipes,
                   batch_no, added_count, exc, response, fetched>>
    /\ UNCHANGED call_vars

\* _store_deduced_ingredients for the batch in progress, then the next
\* batch or the end of the try block (menu_upload.py:233-268).
process_upload_store_raises ==
    /\ pc = "storing"
    /\ LET tables == store_deduced_ingredients(
                         tables_of(db),
                         deduction_batch(created_recipes, batch_no), payload)
       IN /\ tables.exc # NoExc
          /\ db' = rows_with_tables(db, tables)
          /\ exc' = tables.exc
    /\ pc' = "stage2_raising"
    /\ UNCHANGED <<settings, committed, extraction_results, created_recipes,
                   batch_no, payload, added_count, deduction_calls, response,
                   fetched>>
    /\ UNCHANGED call_vars

process_upload_store_returns ==
    /\ pc = "storing"
    /\ LET tables == store_deduced_ingredients(
                         tables_of(db),
                         deduction_batch(created_recipes, batch_no), payload)
       IN /\ tables.exc = NoExc
          /\ db' = rows_with_tables(db, tables)
          /\ added_count' = added_count + tables.added
    /\ IF batch_no < deduction_batches(created_recipes)
       THEN batch_no' = batch_no + 1 /\ pc' = "deducing"
       ELSE batch_no' = batch_no /\ pc' = "stage2_stored"
    /\ UNCHANGED <<settings, committed, extraction_results, created_recipes,
                   payload, deduction_calls, exc, response, fetched>>
    /\ UNCHANGED call_vars

\* An except handler of stage 2 that does not re-raise.
process_upload_stage2_failed_swallows ==
    /\ pc = "stage2_raising"
    /\ db' = rows_after_stage2_failed(db, exc)
    /\ pc' = "finishing"
    /\ UNCHANGED <<settings, committed, extraction_results, created_recipes,
                   batch_no, payload, added_count, deduction_calls, exc,
                   response, fetched>>
    /\ UNCHANGED call_vars

\* The except handler of stage 2 (menu_upload.py:270-275).
process_upload_stage2_failed ==
    /\ pc = "stage2_raising"
    /\ db' = rows_after_stage2_failed(db, exc)
    /\ pc' = "process_raised"
    /\ UNCHANGED <<settings, committed, extraction_results, created_recipes,
                   batch_no, payload, added_count, deduction_calls, exc,
                   response, fetched>>
    /\ UNCHANGED call_vars

process_upload_stage2_completed ==
    /\ pc = "stage2_stored"
    /\ db' = rows_after_stage2_completed(db, added_count)
    /\ pc' = "finishing"
    /\ UNCHANGED <<settings, committed, extraction_results, created_recipes,
                   batch_no, payload, added_count, deduction_calls, exc,
                   response, fetched>>
    /\ UNCHANGED call_vars

\* menu_upload.py:294-309.
process_upload_returns ==
    /\ pc = "finishing"
    /\ db' = rows_after_upload_completed(db)
    /\ pc' = "returned"
    /\ UNCHANGED <<settings, committed, extraction_results, created_recipes,
                   batch_no, payload, added_count, deduction_calls, exc,
                   response, fetched>>
    /\ UNCHANGED call_vars

\* The route after process_upload returned (routes.py:646-648).
create_menu_upload_commits ==
    /\ pc = "returned"
    /\ committed' = db
    /\ response' = [status_code |-> 201, detail |-> "",
                    created_recipe_ids |->
                        [i \in DOMAIN created_recipes |-> created_recipes[i].recipe_id]]
    /\ pc' = "responded"
    /\ UNCHANGED <<settings, db, extraction_results, created_recipes, batch_no,
                   payload, added_count, deduction_calls, exc, fetched>>
    /\ UNCHANGED call_vars

\* The route's except branches (routes.py:649-654): rollback, then the
\* HTTPException as it is or a 500 carrying str(exc).
create_menu_upload_rolls_back ==
    /\ pc \in {"create_raised", "process_raised"}
    /\ db' = committed
    /\ response' = [status_code |-> IF exc.type = "HTTPException" THEN exc.code ELSE 500,
                    detail |-> exc.msg, created_recipe_ids |-> <<>>]
    /\ pc' = "responded"
    /\ UNCHANGED <<settings, committed, extraction_results, created_recipes,
                   batch_no, payload, added_count, deduction_calls, exc, fetched>>
    /\ UNCHANGED call_vars

\* get_menu_upload for this upload, in a session of its own
\* (routes.py:657-667).
get_menu_upload ==
    /\ pc = "responded"
    /\ fetched' = IF committed.upload.status = "absent"
                  THEN [NoFetch EXCEPT !.status_code = 404]
                  ELSE [status_code |-> 200, upload |-> committed.upload,
                        stages |-> committed.stages]
    /\ pc' = "fetched"
    /\ UNCHANGED <<settings, db, committed, extraction_results, created_recipes,
                   batch_no, payload, added_count, deduction_calls, exc, response>>
    /\ UNCHANGED call_vars

Next ==
    \/ create_upload_rejected
    \/ create_upload
    \/ process_upload_stage1_running
    \/ call_extraction_service_raises
    \/ call_extraction_service_returns
    \/ process_upload_stage1_failed
    \/ process_upload_create_recipes
    \/ process_upload_stage2_running
    \/ process_upload_stage2_skipped
    \/ call_recipe_deduction_raises
    \/ call_recipe_deduction_returns
    \/ process_upload_store_raises
    \/ process_upload_store_returns
    \/ process_upload_stage2_failed
    \/ process_upload_stage2_completed
    \/ process_upload_returns
    \/ create_menu_upload_commits
    \/ create_menu_upload_rolls_back
    \/ get_menu_upload

Spec == Init /\ [][Next]_vars

(***************************************************************************)
(* SpecStore: _store_deduced_ingredients on bounded inputs.  The request   *)
(* stands where process_upload calls it for its first batch: the upload    *)
(* was created, stage 1 created the batch's recipes, stage 2 is running    *)
(* and the deduction call returned the payload.                            *)
(***************************************************************************)
InitStore ==
    \E items \in StoreItemLists, k \in 0..MaxEntries :
        \E entries \in [1..k -> EntryPool] :
            LET loop == create_recipes_for_items(
                            [db |-> rows_after_stage1_running(
                                        rows_after_create_upload(EmptyDb)),
                             created |-> <<>>, exc |-> NoExc],
                            items)
            IN /\ pc = "storing"
               /\ settings = [extraction_url |-> TRUE, recipe_deduction_url |-> TRUE]
               /\ db = rows_after_stage2_running(
                           rows_after_stage1_completed(loop.db, loop.created))
               /\ committed = EmptyDb
               /\ extraction_results = items
               /\ created_recipes = loop.created
               /\ batch_no = 1
               /\ payload = Payload(entries)
               /\ added_count = 0
               /\ deduction_calls = <<DeductionCall(loop.created, TRUE, 0, FALSE)>>
               /\ exc = NoExc
               /\ response = NoResponse
               /\ fetched = NoFetch
               /\ call = NoCall
               /\ rows = NoRows
               /\ result = NoResult

NextStore ==
    \/ process_upload_store_raises
    \/ process_upload_store_returns

SpecStore == InitStore /\ [][NextStore]_vars


(***************************************************************************)
(* SpecAllergens: the allergen functions called on their own, on bounded   *)
(* inputs.                                                                 *)
(***************************************************************************)
MaxLinks == 2     \* stored links, override entries, predicted markers per call

Call(fn, links, allergens, text) ==
    [fn |-> fn, links |-> links, payload |-> allergens, text |-> text]

StoredLink(code, name, certainty) ==
    [code |-> code, name |-> name, certainty |-> certainty]

StoredLinkPool ==
    {StoredLink("llm:peanuts", "Peanuts", "low"),
     StoredLink("en:gluten", "Gluten", "direct"),
     StoredLink("en:wheat", "Wheat", "inferred"),
     StoredLink("x:kiwi", "Kiwi", "possible"),
     StoredLink("tree_nuts", "Nut mix", "likely"),
     StoredLink("en:nuts", "Nuts", NULL)}

OverrideEntry(kind, code, allergen, name, certainty) ==
    [kind |-> kind, code |-> code, allergen |-> allergen, name |-> name,
     certainty |-> certainty]

OverrideText(text) == OverrideEntry("text", NULL, text, NULL, NULL)

OverrideEntryPool ==
    {OverrideText("milk"),
     OverrideEntry("dict", "en:milk", NULL, NULL, "direct"),
     OverrideEntry("dict", NULL, "Peanuts", NULL, "likely"),
     OverrideEntry("dict", NULL, "", "wheat", NULL),
     OverrideText("kiwi"),
     OverrideEntry("number", NULL, NULL, NULL, NULL)}

OverridePayload(kind, items) == [kind |-> kind, items |-> items]

OverridePayloads ==
    {OverridePayload(k, <<>>) : k \in {"none", "blank", "null", "number"}}
      \cup {OverridePayload("list", items) : items \in SeqsUpTo(OverrideEntryPool, MaxLinks)}
      \cup {OverridePayload("dict", <<e>>) : e \in {x \in OverrideEntryPool : x.kind = "dict"}}
      \cup {OverridePayload("text", <<e>>) : e \in {x \in OverrideEntryPool : x.kind = "text"}}

ReconcileCalls ==
    {Call("_process_ingredient_allergens", links, allergens, NULL) :
        links \in SeqsUpTo(StoredLinkPool, MaxLinks), allergens \in OverridePayloads}

PredictedPool ==
    {Marker("wheat"), Marker("kiwi"), Marker("PEANUTS"),
     MarkerObject("Gluten", NULL, "HIGH"),
     MarkerObject(NULL, "peanut", "lowish"),
     MarkerObject("en:gluten", NULL, NULL)}

PredictedCalls ==
    {Call("_normalize_predicted_allergens", <<>>, RawList(items), NULL) :
        items \in SeqsUpTo(PredictedPool, MaxLinks)}
      \cup {Call("_normalize_predicted_allergens", <<>>, RawScalar(text), NULL) :
                text \in {"wheat", "kiwi", "PEANUTS"}}

\* Every key of _ALIAS_LOOKUP, the labels as written, and texts that differ
\* from a key in case or surrounding white space or are no key at all.
AllergenTexts ==
    UNION {alias_keys(CANONICAL_DATA[i]) : i \in DOMAIN CANONICAL_DATA}
      \cup {CANONICAL_DATA[i].label : i \in DOMAIN CANONICAL_DATA}
      \cup {CANONICAL_DATA[i].slug : i \in DOMAIN CANONICAL_DATA}
      \cup {NULL, "", "  ", "PEANUTS", "Peanut", "ARACHIS", " milk ", "EN:MILK",
            "Gluten", "kiwi", " kiwi ", "Kiwi", "llm:peanuts"}

CanonicalizeCalls ==
    {Call("canonicalize_allergen", <<>>, OverridePayload("none", <<>>), s) :
        s \in AllergenTexts}

\* None, the empty text, every rule key and value of normalize_certainty,
\* every key of the UI map, and texts that are none of these.
CertaintyTexts ==
    DOMAIN CERTAINTY_NORMALIZATION_RULES \cup Range(CERTAINTY_NORMALIZATION_RULES)
      \cup DOMAIN UI_CERTAINTY_MAP
      \cup {NULL, "", "Direct", "HIGH", "likely present", "banana", "predicted"}

CertaintyCalls ==
    {Call("certainty_to_ui", <<>>, OverridePayload("none", <<>>), s) :
        s \in CertaintyTexts}

PipelineIdle ==
    /\ pc = "idle"
    /\ settings = [extraction_url |-> TRUE, recipe_deduction_url |-> TRUE]
    /\ db = EmptyDb
    /\ committed = EmptyDb
    /\ extraction_results = <<>>
    /\ created_recipes = <<>>
    /\ batch_no = 0
    /\ payload = NoPayload
    /\ added_count = 0
    /\ deduction_calls = <<>>
    /\ exc = NoExc
    /\ response = NoResponse
    /\ fetched = NoFetch

Returned(value) == [returned |-> TRUE, value |-> value, exc |-> NoExc]

InitAllergens ==
    /\ PipelineIdle
    /\ call \in ReconcileCalls \cup PredictedCalls \cup CanonicalizeCalls
                    \cup CertaintyCalls
    /\ rows = NoRows
    /\ result = NoResult

process_ingredient_allergens_call ==
    /\ call.fn = "_process_ingredient_allergens"
    /\ result = NoResult
    /\ result' = process_ingredient_allergens(call.links, call.payload)
    /\ UNCHANGED <<pipeline_vars, call, rows>>

normalize_predicted_allergens_call ==
    /\ call.fn = "_normalize_predicted_allergens"
    /\ result = NoResult
    /\ result' = Returned(normalize_predicted_allergens(call.payload))
    /\ UNCHANGED <<pipeline_vars, call, rows>>

canonicalize_allergen_call ==
    /\ call.fn = "canonicalize_allergen"
    /\ result = NoResult
    /\ result' = Returned(canonicalize_allergen(call.text))
    /\ UNCHANGED <<pipeline_vars, call, rows>>

certainty_to_ui_call ==
    /\ call.fn = "certainty_to_ui"
    /\ result = NoResult
    /\ result' = Returned(certainty_to_ui(call.text))
    /\ UNCHANGED <<pipeline_vars, call, rows>>

NextAllergens ==
    \/ process_ingredient_allergens_call
    \/ normalize_predicted_allergens_call
    \/ canonicalize_allergen_call
    \/ certainty_to_ui_call

SpecAllergens == InitAllergens /\ [][NextAllergens]_vars

(***************************************************************************)
(* SpecExtract: one response text of the model, a JSON array of recipe     *)
(* objects that is complete or cut off after a number of complete          *)
(* objects, handed to extract_from_payload.                                *)
(***************************************************************************)
MaxComplete == 2   \* complete objects before the cut

JsonString(chars) == <<QUOTE>> \o chars \o <<QUOTE>>

JsonMember(key, value) == JsonString(<<key>>) \o <<":">> \o value

CompleteObjects ==
    { <<"{">> \o JsonMember("name", JsonString(<<"Soup">>)) \o <<"}">>,
      <<"{">> \o JsonMember("name", JsonString(<<"a", "}", "b">>)) \o <<"}">>,
      <<"{">> \o JsonMember("name", JsonString(<<"q", BACKSLASH, QUOTE, "x">>)) \o <<"}">>,
      <<"{">> \o JsonMember("name", JsonString(<<"Pie">>)) \o <<",">>
              \o JsonMember("tags", <<"{">> \o JsonMember("n", <<"1">>) \o <<"}">>)
              \o <<"}">>,
      <<"{">> \o JsonMember("name", JsonString(<<"Tea">>)) \o <<",", " ">>
              \o JsonMember("ingredients", <<"[">> \o JsonString(<<"leaf">>) \o <<"]">>)
              \o <<"}">>,
      <<"{">> \o JsonMember("recipes",
                    <<"[", "{">> \o JsonMember("name", JsonString(<<"Nut">>)) \o <<"}", "]">>)
              \o <<"}">> }

\* What the response holds of the object that was being written at the cut.
TruncatedTails ==
    { <<>>,
      <<"{">>,
      <<"{", QUOTE, "name", QUOTE, ":", QUOTE, "Ca">>,
      <<"{", QUOTE, "name", QUOTE, ":", QUOTE, "a", "}">>,
      <<"{">> \o JsonMember("name", JsonString(<<"Cake">>)),
      <<"{">> \o JsonMember("name", JsonString(<<"Cake">>)) \o <<",">>
              \o JsonMember("tags", <<"{">> \o JsonMember("n", <<"1">>) \o <<"}">>)
              \o <<",", QUOTE, "pri">>,
      <<"{">> \o JsonMember("name", JsonString(<<"Cake">>)) \o <<",">>
              \o JsonMember("ingredients", <<"[">> \o JsonString(<<"egg">>) \o <<"]">>)
              \o <<",", QUOTE, "pri">> }

RECURSIVE JoinObjects(_)
JoinObjects(objects) ==
    IF objects = <<>> THEN <<>>
    ELSE IF Len(objects) = 1 THEN objects[1]
    ELSE objects[1] \o <<",", " ">> \o JoinObjects(Tail(objects))

\* The response text: the array, cut off inside its last element when tail
\* is given, and inside a code fence when fenced.
ResponseText(objects, truncated, tail, fenced) ==
    LET array == IF truncated
                 THEN <<"[">> \o JoinObjects(objects) \o <<",", " ">> \o tail
                 ELSE <<"[">> \o JoinObjects(objects) \o <<"]">>
    IN IF ~fenced THEN array
       ELSE IF truncated THEN <<FENCE, "json", NEWLINE>> \o array
       ELSE <<FENCE, "json", NEWLINE>> \o array \o <<NEWLINE, FENCE>>

ExtractCall(objects, truncated, tail, fenced) ==
    Call("extract_from_payload", objects,
         [truncated |-> truncated, fenced |-> fenced],
         ResponseText(objects, truncated, tail, fenced))

InitExtract ==
    /\ PipelineIdle
    /\ \E objects \in SeqsUpTo(CompleteObjects, MaxComplete) :
       \E fenced \in BOOLEAN :
          /\ objects # <<>>
          /\ \/ call = ExtractCall(objects, FALSE, <<>>, fenced)
             \/ \E tail \in TruncatedTails :
                   call = ExtractCall(objects, TRUE, tail, fenced)
    /\ rows = NoRows
    /\ result = NoResult

extract_from_payload_call ==
    /\ call.fn = "extract_from_payload"
    /\ result = NoResult
    /\ result' = Returned(extract_from_payload(call.text))
    /\ UNCHANGED <<pipeline_vars, call, rows>>

NextExtract == extract_from_payload_call

SpecExtract == InitExtract /\ [][NextExtract]_vars

(***************************************************************************)
(* SpecRace: two create_menu_upload requests for one restaurant whose      *)
(* primary menu exists, each in a session and transaction of its own       *)
(* (database.py:42-50, routes.py:637-654), interleaved at the awaits of    *)
(* get_or_create_menu_section_by_name.  Each request carries one item with *)
(* a category.  rows holds the committed rows; a request's flushed rows    *)
(* are its own until its commit.  The menu_section table carries           *)
(* UniqueConstraint("menu_id", "name") (models.py:300-303): an INSERT of   *)
(* a (menu, name) pair that another open transaction has inserted waits    *)
(* for that transaction to end, and fails when the pair is committed.      *)
(* call is the two requests, result their responses.                       *)
(***************************************************************************)
Requests == {1, 2}

\* The categories of the two requests' items.
RaceCategories == {"Mains", "MAINS", "Other", NULL}

\* The primary menu at the start: Archive, and possibly a section.
RaceMenus ==
    { <<[id |-> 1, name |-> "Archive", position |-> ArchivePosition]>>,
      <<[id |-> 1, name |-> "Archive", position |-> ArchivePosition],
        [id |-> 2, name |-> "Other", position |-> ArchivePosition + 1]>> }

NewRequest(category) ==
    [pc |-> "start", category |-> category, missed |-> FALSE, section_id |-> 0,
     sections |-> <<>>, recipes |-> <<>>]

\* (name or "Uncategorized").strip() or "Uncategorized", dal.py:619.
cleaned_section_name(name) ==
    LET stripped == strip(IF name = NULL \/ name = "" THEN "Uncategorized" ELSE name)
    IN IF stripped = "" THEN "Uncategorized" ELSE stripped

\* The section rows a request's session reads: the committed rows and the
\* rows it has flushed itself.
visible_sections(r) == rows.sections \o call[r].sections

InitRace ==
    /\ PipelineIdle
    /\ \E c1, c2 \in RaceCategories :
          call = [r \in Requests |-> NewRequest(IF r = 1 THEN c1 ELSE c2)]
    /\ \E sections \in RaceMenus :
          rows = [tables |-> "menu", sections |-> sections, recipes |-> <<>>,
                  next_section_id |-> Len(sections) + 1]
    /\ result = [r \in Requests |-> NoResponse]

\* dal.py:618-634: the primary menu is found, the name is cleaned and the
\* section is looked up without regard to case.
select_section(r) ==
    /\ call[r].pc = "start"
    /\ LET cleaned_name == cleaned_section_name(safe_string(call[r].category))
           found == section_by_name(visible_sections(r), lower(cleaned_name))
       IN IF found # 0
          THEN call' = [call EXCEPT
                           ![r].pc = "resolved",
                           ![r].section_id = visible_sections(r)[found].id]
          ELSE call' = [call EXCEPT ![r].pc = "missed", ![r].missed = TRUE]
    /\ UNCHANGED <<pipeline_vars, rows, result>>

\* An INSERT that no constraint checks.
insert_section_unconstrained(r) ==
    /\ call[r].pc = "missed"
    /\ LET cleaned_name == cleaned_section_name(safe_string(call[r].category))
           section == [id |-> rows.next_section_id, name |-> cleaned_name,
                       position |-> max_position(visible_sections(r)) + 1]
       IN /\ call' = [call EXCEPT ![r].pc = "resolved",
                                  ![r].section_id = section.id,
                                  ![r].sections = Append(@, section)]
          /\ rows' = [rows EXCEPT !.next_section_id = @ + 1]
    /\ UNCHANGED <<pipeline_vars, result>>

\* dal.py:636-651: the next position, session.add and flush.  The INSERT
\* waits while the other request holds the same (menu, name) uncommitted,
\* and raises IntegrityError when the pair is committed.
insert_section(r) ==
    /\ call[r].pc = "missed"
    /\ LET cleaned_name == cleaned_section_name(safe_string(call[r].category))
           section == [id |-> rows.next_section_id, name |-> cleaned_name,
                       position |-> max_position(visible_sections(r)) + 1]
       IN /\ \A o \in Requests \ {r} :
                \A i \in DOMAIN call[o].sections :
                   call[o].sections[i].name # cleaned_name
          /\ IF \E i \in DOMAIN rows.sections : rows.sections[i].name = cleaned_name
             THEN /\ call' = [call EXCEPT ![r].pc = "raised"]
                  /\ rows' = rows
             ELSE /\ call' = [call EXCEPT ![r].pc = "resolved",
                                          ![r].section_id = section.id,
                                          ![r].sections = Append(@, section)]
                  /\ rows' = [rows EXCEPT !.next_section_id = @ + 1]
    /\ UNCHANGED <<pipeline_vars, result>>

\* menu_upload.py:168-206: the recipe of the item, linked to the section.
create_item_recipe(r) ==
    /\ call[r].pc = "resolved"
    /\ call' = [call EXCEPT
                   ![r].pc = "processed",
                   ![r].recipes = Append(@, [request |-> r, status |-> "needs_review",
                                             section_ids |-> <<call[r].section_id>>])]
    /\ UNCHANGED <<pipeline_vars, rows, result>>

\* routes.py:646-648: commit, and the 201 response.
commit_request(r) ==
    /\ call[r].pc = "processed"
    /\ rows' = [rows EXCEPT !.sections = @ \o call[r].sections,
                            !.recipes = @ \o call[r].recipes]
    /\ call' = [call EXCEPT ![r].pc = "completed", ![r].sections = <<>>,
                            ![r].recipes = <<>>]
    /\ result' = [result EXCEPT ![r] = [NoResponse EXCEPT !.status_code = 201]]
    /\ UNCHANGED pipeline_vars

\* routes.py:652-654: rollback, and the 500 response.
rollback_request(r) ==
    /\ call[r].pc = "raised"
    /\ call' = [call EXCEPT ![r].pc = "failed", ![r].sections = <<>>,
                            ![r].recipes = <<>>]
    /\ result' = [result EXCEPT
                     ![r] = [NoResponse EXCEPT !.status_code = 500,
                                               !.detail = "IntegrityError"]]
    /\ UNCHANGED <<pipeline_vars, rows>>

NextRace ==
    \E r \in Requests :
        \/ select_section(r)
        \/ insert_section(r)
        \/ create_item_recipe(r)
        \/ commit_request(r)
        \/ rollback_request(r)

SpecRace == InitRace /\ [][NextRace]_vars

(***************************************************************************)
(* SpecLink: the ingredient "Wheat flour" (id 1) and a second ingredient,   *)
(* the allergen links that link_ingredient_allergen and                    *)
(* add_ingredient_allergen store for them in one session, and the links of *)
(* "Wheat flour" read back by get_ingredient_by_name (dal.py:35-90,        *)
(* 200-240, 1153-1195).                                                    *)
(***************************************************************************)
MaxStored == 2   \* calls of link_ingredient_allergen

AllergenRows ==
    <<[id |-> 1, code |-> "en:gluten", name |-> "Gluten"],
      [id |-> 2, code |-> "en:milk", name |-> "Milk"]>>

\* The certainty levels the docstring of link_ingredient_allergen names.
StoredCertainties == {"direct", "inferred", "possible"}

LinkSources == {"off", "llm"}

LinkIngredients == {1, 2}

\* The arguments of the last call of either function.
LinkCall(fn, ingredient_id, allergen_id, certainty, source) ==
    [fn |-> fn, ingredient_id |-> ingredient_id, allergen_id |-> allergen_id,
     certainty |-> certainty, source |-> source]

NoLinkCall == LinkCall("none", 0, 0, "", "")

InitLink ==
    /\ PipelineIdle
    /\ call = [fn |-> "link_ingredient_allergen", count |-> 0,
               last |-> NoLinkCall, before |-> <<>>]
    /\ rows = [tables |-> "links", links |-> <<>>]
    /\ result = NoResult

\* An upsert that looks for the link by ingredient and allergen only.
link_rows_any_source(links, ingredient_id, allergen_id, certainty, source) ==
    LET found == {i \in DOMAIN links :
                     /\ links[i].ingredient_id = ingredient_id
                     /\ links[i].allergen_id = allergen_id}
    IN IF found # {}
       THEN [i \in DOMAIN links |->
                IF i \in found THEN [links[i] EXCEPT !.certainty = certainty]
                ELSE links[i]]
       ELSE Append(links, [ingredient_id |-> ingredient_id,
                           allergen_id |-> allergen_id,
                           certainty |-> certainty, source |-> source])

\* dal.py:200-240: the link of (ingredient, allergen, source) is updated
\* when there is one and inserted otherwise.
link_rows(links, ingredient_id, allergen_id, certainty, source) ==
    LET found == {i \in DOMAIN links :
                     /\ links[i].ingredient_id = ingredient_id
                     /\ links[i].allergen_id = allergen_id
                     /\ links[i].source = source}
    IN IF found # {}
       THEN [i \in DOMAIN links |->
                IF i \in found THEN [links[i] EXCEPT !.certainty = certainty]
                ELSE links[i]]
       ELSE Append(links, [ingredient_id |-> ingredient_id,
                           allergen_id |-> allergen_id,
                           certainty |-> certainty, source |-> source])

\* dal.py:1153-1195: the same upsert, on IngredientAllergen rows found by
\* ingredient, allergen and source.
association_rows(links, ingredient_id, allergen_id, certainty, source) ==
    LET existing == {i \in DOMAIN links :
                        /\ links[i].ingredient_id = ingredient_id
                        /\ links[i].allergen_id = allergen_id
                        /\ links[i].source = source}
    IN IF existing # {}
       THEN [i \in DOMAIN links |->
                IF i \in existing THEN [links[i] EXCEPT !.certainty = certainty]
                ELSE links[i]]
       ELSE Append(links, [ingredient_id |-> ingredient_id,
                           allergen_id |-> allergen_id,
                           certainty |-> certainty, source |-> source])

link_ingredient_allergen ==
    /\ call.fn = "link_ingredient_allergen"
    /\ call.count < MaxStored
    /\ \E ingredient_id \in LinkIngredients, allergen_id \in DOMAIN AllergenRows,
          certainty \in StoredCertainties, source \in LinkSources :
          /\ rows' = [rows EXCEPT !.links = link_rows(@, ingredient_id, allergen_id,
                                                      certainty, source)]
          /\ call' = [call EXCEPT
                         !.count = @ + 1,
                         !.last = LinkCall("link_ingredient_allergen", ingredient_id,
                                           allergen_id, certainty, source),
                         !.before = rows.links]
    /\ result' = NoResult
    /\ UNCHANGED pipeline_vars

add_ingredient_allergen_call ==
    /\ call.fn = "link_ingredient_allergen"
    /\ call.count < MaxStored
    /\ \E ingredient_id \in LinkIngredients, allergen_id \in DOMAIN AllergenRows,
          certainty \in StoredCertainties, source \in LinkSources :
          /\ rows' = [rows EXCEPT !.links = association_rows(@, ingredient_id,
                                                             allergen_id, certainty,
                                                             source)]
          /\ call' = [call EXCEPT
                         !.count = @ + 1,
                         !.last = LinkCall("add_ingredient_allergen", ingredient_id,
                                           allergen_id, certainty, source),
                         !.before = rows.links]
    /\ result' = NoResult
    /\ UNCHANGED pipeline_vars

\* dal.py:72-79: one AllergenResponse per link of the ingredient.
allergen_responses(links) ==
    [i \in DOMAIN links |->
        [code |-> AllergenRows[links[i].allergen_id].code,
         name |-> AllergenRows[links[i].allergen_id].name,
         certainty |-> certainty_to_ui(links[i].certainty)]]

get_ingredient_by_name ==
    /\ call.fn = "link_ingredient_allergen"
    /\ result = NoResult
    /\ result' = Returned(allergen_responses(
                     SelectSeq(rows.links, LAMBDA l : l.ingredient_id = 1)))
    /\ UNCHANGED <<pipeline_vars, call, rows>>

NextLink ==
    \/ link_ingredient_allergen
    \/ add_ingredient_allergen_call
    \/ get_ingredient_by_name

SpecLink == InitLink /\ [][NextLink]_vars

(***************************************************************************)
(* SpecSections: one recipe of restaurant 1 that create_recipe makes with  *)
(* a list of menu section ids and update_recipe then assigns another list  *)
(* to (dal.py:755-909).                                                    *)
(***************************************************************************)
MaxIds == 3   \* length of menu_section_ids

\* The menu_section rows with the restaurant of their menu; id 4 is no row.
SectionRows ==
    <<[id |-> 1, restaurant_id |-> 1],
      [id |-> 2, restaurant_id |-> 1],
      [id |-> 3, restaurant_id |-> 2]>>

\* The menu_section_ids argument: None, or a list of ids.
NoSectionIds == [given |-> FALSE, ids |-> <<>>]

SectionIdLists ==
    {NoSectionIds} \cup {[given |-> TRUE, ids |-> ids] : ids \in SeqsUpTo(1..4, MaxIds)}

\* list(dict.fromkeys(section_ids)): the ids in the order of their first
\* occurrence.
RECURSIVE unique_ids(_)
unique_ids(section_ids) ==
    IF section_ids = <<>> THEN <<>>
    ELSE LET front == unique_ids(SubSeq(section_ids, 1, Len(section_ids) - 1))
             last == section_ids[Len(section_ids)]
         IN IF last \in Range(front) THEN front ELSE Append(front, last)

\* {section_id: index for index, section_id in enumerate(unique_ids)}
order_map(ids) ==
    [section_id \in Range(ids) |->
        (CHOOSE i \in DOMAIN ids : ids[i] = section_id) - 1]

\* An assignment that leaves the links to the sections not named in place.
set_recipe_sections_merging(recipe, section_ids) ==
    LET ids == unique_ids(section_ids)
        found_ids == {s.id : s \in Range(SectionRows)} \cap Range(ids)
        order == order_map(ids)
        linked == {l.section_id : l \in recipe.section_links}
    IN IF Range(ids) \ found_ids # {}
       THEN [exc |-> [ValueError("_set_recipe_sections") EXCEPT
                         !.msg = "Invalid menu section ids provided"],
             section_links |-> recipe.section_links]
       ELSE IF \E s \in Range(SectionRows) :
                  s.id \in found_ids /\ s.restaurant_id # recipe.restaurant_id
       THEN [exc |-> [ValueError("_set_recipe_sections") EXCEPT
                         !.msg = "Menu section does not belong to recipe's restaurant"],
             section_links |-> recipe.section_links]
       ELSE [exc |-> NoExc,
             section_links |->
                 {IF l.section_id \in found_ids
                  THEN [l EXCEPT !.position = order[l.section_id]] ELSE l :
                      l \in recipe.section_links}
                 \cup {[section_id |-> s, position |-> order[s]] :
                          s \in found_ids \ linked}]

\* dal.py:755-805.  The links are the rows of menu_section_recipe of the
\* recipe, one per section (the table's primary key).
set_recipe_sections(recipe, section_ids) ==
    LET ids == unique_ids(section_ids)
        found_ids == {s.id : s \in Range(SectionRows)} \cap Range(ids)
        order == order_map(ids)
        kept == {l \in recipe.section_links : l.section_id \in DOMAIN order}
        linked == {l.section_id : l \in kept}
    IN IF ids = <<>>
       THEN [exc |-> NoExc, section_links |-> {}]
       ELSE IF Range(ids) \ found_ids # {}
       THEN [exc |-> [ValueError("_set_recipe_sections") EXCEPT
                         !.msg = "Invalid menu section ids provided"],
             section_links |-> recipe.section_links]
       ELSE IF \E s \in Range(SectionRows) :
                  s.id \in found_ids /\ s.restaurant_id # recipe.restaurant_id
       THEN [exc |-> [ValueError("_set_recipe_sections") EXCEPT
                         !.msg = "Menu section does not belong to recipe's restaurant"],
             section_links |-> recipe.section_links]
       ELSE [exc |-> NoExc,
             section_links |->
                 {[l EXCEPT !.position = order[l.section_id]] : l \in kept}
                 \cup {[section_id |-> s, position |-> order[s]] :
                          s \in found_ids \ linked}]

InitSections ==
    /\ PipelineIdle
    /\ call = [fn |-> "none", menu_section_ids |-> NoSectionIds]
    /\ rows = [tables |-> "recipe", recipes |-> <<>>]
    /\ result = NoResult

\* dal.py:808-868: the recipe row is flushed before its sections are
\* assigned, so it is in the session also when the assignment raises.
create_recipe_with_sections ==
    /\ call.fn = "none"
    /\ rows.tables = "recipe"
    /\ \E menu_section_ids \in SectionIdLists :
          LET recipe == [id |-> 1, restaurant_id |-> 1, name |-> "Grilled Salmon",
                         section_links |-> {}]
              assigned == IF ~menu_section_ids.given
                          THEN [exc |-> NoExc, section_links |-> {}]
                          ELSE set_recipe_sections(recipe, menu_section_ids.ids)
          IN /\ call' = [fn |-> "create_recipe", menu_section_ids |-> menu_section_ids]
             /\ rows' = [rows EXCEPT !.recipes =
                            <<[recipe EXCEPT !.section_links = assigned.section_links]>>]
             /\ result' = IF assigned.exc = NoExc THEN Returned(recipe.id)
                          ELSE [returned |-> FALSE, value |-> NULL,
                                exc |-> assigned.exc]
    /\ UNCHANGED pipeline_vars

\* dal.py:871-909: None for an unknown recipe; the given fields are set,
\* then the sections are assigned when menu_section_ids is given.
update_recipe ==
    /\ call.fn = "create_recipe"
    /\ \E recipe_id \in {1, 2}, name \in {NULL, "Seared Salmon"},
          menu_section_ids \in SectionIdLists :
          LET found == {i \in DOMAIN rows.recipes : rows.recipes[i].id = recipe_id}
          IN /\ call' = [fn |-> "update_recipe", recipe_id |-> recipe_id,
                         menu_section_ids |-> menu_section_ids,
                         before |-> rows.recipes]
             /\ IF found = {}
                THEN /\ rows' = rows
                     /\ result' = Returned(NULL)
                ELSE LET i == CHOOSE i \in found : TRUE
                         recipe == IF name # NULL
                                   THEN [rows.recipes[i] EXCEPT !.name = name]
                                   ELSE rows.recipes[i]
                         assigned == IF ~menu_section_ids.given
                                     THEN [exc |-> NoExc,
                                           section_links |-> recipe.section_links]
                                     ELSE set_recipe_sections(recipe, menu_section_ids.ids)
                     IN /\ rows' = [rows EXCEPT !.recipes[i] =
                                       [recipe EXCEPT !.section_links =
                                                          assigned.section_links]]
                        /\ result' = IF assigned.exc = NoExc THEN Returned(recipe.id)
                                     ELSE [returned |-> FALSE, value |-> NULL,
                                           exc |-> assigned.exc]
    /\ UNCHANGED pipeline_vars

NextSections ==
    \/ create_recipe_with_sections
    \/ update_recipe

SpecSections == InitSections /\ [][NextSections]_vars

(***************************************************************************)
(* SpecMenu: the sections of one restaurant's primary menu (no recipe is   *)
(* linked to them) under get_or_create_menu_section_by_name,               *)
(* get_restaurant_menu_sections and save_restaurant_menu_sections          *)
(* (dal.py:548-754).  Every call is one request: its changes are committed *)
(* when it returns and rolled back when it raises (routes.py:364-424).     *)
(***************************************************************************)
MaxCalls == 2     \* dal calls in a row
MaxPayload == 2   \* entries of a sections payload

SectionNames == {"Mains", "Sides", "Archive"}

\* MenuSectionUpsert (models.py:630-635); id 0 stands for no id.
MenuSectionUpsert(id, name, positioned, position) ==
    [id |-> id, name |-> name, positioned |-> positioned, position |-> position]

\* Entries without a position for no id and for the ids 1 and 2, and one
\* new section with a position of its own.
UpsertPool ==
    {MenuSectionUpsert(id, name, FALSE, 0) : id \in 0..2, name \in {"Mains", "Archive"}}
    \cup {MenuSectionUpsert(0, "Sides", TRUE, ArchivePosition + 1),
          MenuSectionUpsert(2, "Sides", FALSE, 0)}

IntegrityError(at) ==
    [type |-> "IntegrityError", code |-> 0,
     msg |-> "UNIQUE constraint failed: menu_section.menu_id, menu_section.name",
     at |-> at]

\* autoincrement: the rows a dal operator appended get the next free ids.
fresh_ids(before, after, next_id) ==
    [i \in DOMAIN after |->
        IF i <= Len(before) THEN after[i]
        ELSE [after[i] EXCEPT !.id = next_id + (i - Len(before) - 1)]]

\* A flush of the session's sections over the rows flushed before: the
\* UPDATEs run in primary key order, then the INSERTs, and
\* uq_menu_section_menu_name (models.py:301-304) is checked after each.
flush_conflict(flushed, sections) ==
    \E i \in DOMAIN sections :
        LET row == sections[i]
            old == {k \in DOMAIN flushed : flushed[k].id = row.id}
            is_insert == old = {}
            is_update == ~is_insert /\ \E k \in old : flushed[k].name # row.name
        IN /\ is_insert \/ is_update
           /\ \E j \in DOMAIN sections :
                 LET other == sections[j]
                     other_old == {k \in DOMAIN flushed : flushed[k].id = other.id}
                 IN /\ other.id # row.id
                    /\ IF other_old = {} THEN is_insert /\ j < i /\ other.name = row.name
                       ELSE IF is_insert \/ other.id < row.id
                       THEN other.name = row.name
                       ELSE \E k \in other_old : flushed[k].name = row.name

\* The index of the row with the id, 0 when there is none: existing.get(id).
section_by_id(sections, id) ==
    LET found == {i \in DOMAIN sections : sections[i].id = id}
    IN IF found = {} THEN 0 ELSE CHOOSE i \in found : TRUE

max_of(a, b) == IF a >= b THEN a ELSE b

\* One pass of the loop of save_restaurant_menu_sections, dal.py:693-729.
\* loop is [sections, flushed, next_id, retained_ids, position_counter, exc].
save_section(loop, entry) ==
    LET desired_position == IF entry.positioned THEN entry.position
                            ELSE loop.position_counter
        effective_name == strip(entry.name)
        at == section_by_id(loop.sections, entry.id)
        counted == [loop EXCEPT !.position_counter = max_of(@, desired_position + 1)]
        reserved == [loop EXCEPT !.exc =
                        [ValueError("save_restaurant_menu_sections") EXCEPT
                            !.msg = "Archive section name is reserved"]]
    IN IF loop.exc # NoExc THEN loop
       ELSE IF entry.id # 0
       THEN IF at = 0
            THEN [loop EXCEPT !.exc =
                     [ValueError("save_restaurant_menu_sections") EXCEPT
                         !.msg = "Invalid menu section id for restaurant"]]
            ELSE IF lower(strip(loop.sections[at].name)) = "archive"
            THEN [counted EXCEPT !.sections[at].position = desired_position,
                                 !.retained_ids = @ \cup {entry.id}]
            ELSE IF lower(effective_name) = "archive" THEN reserved
            ELSE [counted EXCEPT !.sections[at].name = effective_name,
                                 !.sections[at].position = desired_position,
                                 !.retained_ids = @ \cup {entry.id}]
       ELSE IF lower(effective_name) = "archive" THEN reserved
       ELSE LET added == Append(loop.sections,
                                [id |-> loop.next_id, name |-> effective_name,
                                 position |-> desired_position])
            IN IF flush_conflict(loop.flushed, added)
               THEN [loop EXCEPT !.exc = IntegrityError("save_restaurant_menu_sections")]
               ELSE [counted EXCEPT !.sections = added,
                                    !.flushed = added,
                                    !.next_id = @ + 1,
                                    !.retained_ids = @ \cup {loop.next_id}]

RECURSIVE save_sections(_, _)
save_sections(loop, sections_payload) ==
    IF sections_payload = <<>> THEN loop
    ELSE save_sections(save_section(loop, Head(sections_payload)),
                       Tail(sections_payload))

\* dal.py:672-754 on a menu m = [menu, sections, next_section_id] that has
\* its Archive section.  Returns [menu, exc]; the rows are as they were
\* when it raises.
save_restaurant_menu_sections(m, sections_payload) ==
    LET loop == save_sections(
                    [sections |-> m.sections, flushed |-> m.sections,
                     next_id |-> m.next_section_id, retained_ids |-> {},
                     position_counter |-> 0, exc |-> NoExc],
                    sections_payload)
        archive == section_by_name(m.sections, "archive")
        kept == SelectSeq(loop.sections,
                          LAMBDA s : s.id \in loop.retained_ids
                                     \/ s.id = m.sections[archive].id)
    IN IF loop.exc # NoExc THEN [menu |-> m, exc |-> loop.exc]
       ELSE IF flush_conflict(loop.flushed, loop.sections)
       THEN [menu |-> m, exc |-> IntegrityError("save_restaurant_menu_sections")]
       ELSE [menu |-> [m EXCEPT !.sections = kept,
                                !.next_section_id = loop.next_id],
             exc |-> NoExc]

\* order_by(position.nulls_last(), created_at.asc()), dal.py:663-668.
RECURSIVE sections_in_order(_)
sections_in_order(sections) ==
    IF sections = <<>> THEN <<>>
    ELSE LET first == CHOOSE i \in DOMAIN sections :
                         \A j \in DOMAIN sections :
                            \/ sections[i].position < sections[j].position
                            \/ /\ sections[i].position = sections[j].position
                               /\ sections[i].id <= sections[j].id
         IN <<sections[first]>> \o
            sections_in_order(SelectSeq(sections,
                                        LAMBDA s : s.id # sections[first].id))

\* _get_primary_menu and _ensure_archive_section on the menu rows.
menu_with_archive(m) ==
    LET ensured == ensure_archive_section(get_primary_menu(m))
    IN [ensured EXCEPT
           !.sections = fresh_ids(m.sections, @, m.next_section_id),
           !.next_section_id = @ + (Len(ensured.sections) - Len(m.sections))]

InitMenu ==
    /\ PipelineIdle
    /\ call = [fn |-> "none", count |-> 0, saved |-> FALSE]
    /\ rows = [tables |-> "menu_section", menu |-> FALSE, sections |-> <<>>,
               next_section_id |-> 1]
    /\ result = NoResult

get_or_create_section ==
    /\ rows.tables = "menu_section"
    /\ call.count < MaxCalls
    /\ \E name \in SectionNames \cup {NULL} :
          LET found == get_or_create_menu_section_by_name(rows, name)
              sections == fresh_ids(rows.sections, found.db.sections,
                                    rows.next_section_id)
          IN /\ rows' = [found.db EXCEPT
                            !.sections = sections,
                            !.next_section_id =
                                @ + (Len(sections) - Len(rows.sections))]
             /\ result' = Returned(sections[found.section_id])
    /\ call' = [call EXCEPT !.fn = "get_or_create_menu_section_by_name",
                            !.count = @ + 1]
    /\ UNCHANGED pipeline_vars

get_restaurant_menu_sections ==
    /\ rows.tables = "menu_section"
    /\ call.count < MaxCalls
    /\ rows' = menu_with_archive(rows)
    /\ result' = Returned(sections_in_order(rows'.sections))
    /\ call' = [call EXCEPT !.fn = "get_restaurant_menu_sections", !.count = @ + 1]
    /\ UNCHANGED pipeline_vars

save_sections_call ==
    /\ rows.tables = "menu_section"
    /\ call.count < MaxCalls
    /\ \E sections_payload \in SeqsUpTo(UpsertPool, MaxPayload) :
          LET saved == save_restaurant_menu_sections(menu_with_archive(rows),
                                                     sections_payload)
          IN IF saved.exc = NoExc
             THEN /\ rows' = saved.menu
                  /\ result' = Returned(sections_in_order(saved.menu.sections))
                  /\ call' = [fn |-> "save_restaurant_menu_sections",
                              count |-> call.count + 1, saved |-> TRUE]
             ELSE /\ rows' = rows
                  /\ result' = [returned |-> FALSE, value |-> <<>>, exc |-> saved.exc]
                  /\ call' = [call EXCEPT !.fn = "save_restaurant_menu_sections",
                                          !.count = @ + 1]
    /\ UNCHANGED pipeline_vars

NextMenu ==
    \/ get_or_create_section
    \/ get_restaurant_menu_sections
    \/ save_sections_call

SpecMenu == InitMenu /\ [][NextMenu]_vars

(***************************************************************************)
(* SpecLine: the recipe_ingredient lines of recipe 1 under the routes      *)
(* POST /recipes/{id}/ingredients and PUT /recipes/{id}/ingredients/{id}   *)
(* (routes.py:968-1085, dal.py:985-1078).  The first line is one the       *)
(* upload pipeline stored, with the allergens the deduction predicted.     *)
(***************************************************************************)
MaxUpdates == 2   \* requests in a row

NoSubstitution == [alternative |-> NULL, surcharge |-> NULL]

\* RecipeIngredientRequest (models.py:576-585) without ingredient_name.
RecipeIngredientRequests ==
    [ingredient_id : {1, 2},
     quantity : {NULL, "2"},
     unit : {NULL, "g"},
     notes : {NULL, "chopped"},
     confirmed : {NULL, "true"},
     substitution_set : BOOLEAN,
     substitution : {NoSubstitution,
                     [alternative |-> "Oat milk", surcharge |-> NULL]},
     allergens : {NoAllergens,
                  normalize_predicted_allergens(RawList(<<Marker("eggs")>>))}]

StoredLines ==
    {[recipe_id |-> 1, ingredient_id |-> 1, quantity |-> NULL, unit |-> NULL,
      notes |-> NULL, allergens |-> normalize_predicted_allergens(raw),
      confirmed |-> FALSE, substitution |-> NoSubstitution] :
         raw \in {RawNone, RawList(<<>>), RawList(<<Marker("milk")>>),
                  RawList(<<Marker("milk"), Marker("Wheat")>>)}}

\* dal.py:985-1078.  allergens is [given, json]: the argument left at None,
\* or its serialization; the substitution is an alternative or none.
add_recipe_ingredient(lines, recipe_id, ingredient_id, quantity, unit, notes, allergens, confirmed, substitution, substitution_provided) ==
    LET found == {i \in DOMAIN lines : /\ lines[i].recipe_id = recipe_id
                                       /\ lines[i].ingredient_id = ingredient_id}
        allergens_json == IF allergens.given THEN allergens.json ELSE NoAllergens
        substituted(old) ==
            IF ~substitution_provided THEN old
            ELSE IF substitution.alternative # NULL
                    /\ substitution.alternative # ""
            THEN substitution
            ELSE NoSubstitution
    IN IF found # {}
       THEN [i \in DOMAIN lines |->
                IF i \in found
                THEN [lines[i] EXCEPT
                         !.quantity = quantity, !.unit = unit, !.notes = notes,
                         !.allergens = allergens_json,
                         !.confirmed = confirmed,
                         !.substitution = substituted(@)]
                ELSE lines[i]]
       ELSE Append(lines,
                   [recipe_id |-> recipe_id, ingredient_id |-> ingredient_id,
                    quantity |-> quantity, unit |-> unit, notes |-> notes,
                    allergens |-> allergens_json, confirmed |-> confirmed,
                    substitution |-> substituted(NoSubstitution)])

InitLine ==
    /\ PipelineIdle
    /\ call = [fn |-> "none", count |-> 0]
    /\ \E line \in StoredLines :
          rows = [tables |-> "recipe_ingredient", lines |-> <<line>>]
    /\ result = NoResult

\* Both routes hand the request's fields except allergens to
\* dal.add_recipe_ingredient and commit (routes.py:968-1023, 1026-1085); the
\* PUT route takes the ingredient from the path.
recipe_ingredient_request(fn) ==
    /\ rows.tables = "recipe_ingredient"
    /\ call.count < MaxUpdates
    /\ \E ingredient_data \in RecipeIngredientRequests :
          /\ call' = [fn |-> fn, count |-> call.count + 1,
                      ingredient_data |-> ingredient_data,
                      before |-> rows.lines]
          /\ rows' = [rows EXCEPT !.lines =
                         add_recipe_ingredient(
                             @, 1, ingredient_data.ingredient_id,
                             ingredient_data.quantity, ingredient_data.unit,
                             ingredient_data.notes,
                             [given |-> FALSE, json |-> NoAllergens],
                             ingredient_data.confirmed = "true",
                             ingredient_data.substitution,
                             ingredient_data.substitution_set)]
    /\ result' = Returned([status |-> "success"])
    /\ UNCHANGED pipeline_vars

add_recipe_ingredient_route == recipe_ingredient_request("add_recipe_ingredient")

update_recipe_ingredient_route == recipe_ingredient_request("update_recipe_ingredient")

NextLine ==
    \/ add_recipe_ingredient_route
    \/ update_recipe_ingredient_route

SpecLine == InitLine /\ [][NextLine]_vars

(***************************************************************************)
(* Properties.                                                             *)
(***************************************************************************)
\* process_upload has exited, by returning or by raising to the route.
ProcessExited == pc \in {"returned", "process_raised"}

\* C1: if the extraction call raises, process_upload does nothing more than
\* its except handler and exits raising that exception, with the upload
\* failed, stage 1 failed carrying the exception text, stage 2 pending, no
\* recipe created and no deduction call made.
C1_ExtractionFailureIsFatal ==
    exc.at = "_call_extraction_service" =>
        /\ pc \in {"stage1_raising", "process_raised", "responded", "fetched"}
        /\ deduction_calls = <<>>
        /\ created_recipes = <<>>
        /\ pc = "process_raised" =>
              /\ db.upload.status = "failed"
              /\ db.stages.stage_1.status = "failed"
              /\ db.stages.stage_1.error_message = exc.msg
              /\ db.stages.stage_2.status = "pending"
              /\ db.recipes = <<>>
              /\ db.upload_recipes = <<>>

C1_Witness ==
    /\ pc = "process_raised"
    /\ exc.at = "_call_extraction_service"
    /\ exc.type = "HTTPStatusError"
    /\ db.stages.stage_1.status = "failed"

\* An extracted item that is an object and has neither a name nor a title.
LacksName(item) ==
    item.isDict /\ item.name \in {NULL, ""} /\ item.title \in {NULL, ""}

\* C2: when the extraction call returned no item with a name, process_upload
\* returns normally with the upload completed, stage 1 completed with
\* recipes_created = 0, stage 2 skipped, and no deduction call made.
C2_NoItemsSkipsStage2 ==
    ( /\ ProcessExited
      /\ exc.at # "_call_extraction_service"
      /\ \A i \in DOMAIN extraction_results : LacksName(extraction_results[i]) )
    => /\ pc = "returned"
       /\ exc = NoExc
       /\ db.upload.status = "completed"
       /\ db.stages.stage_1.status = "completed"
       /\ db.stages.stage_1.details = Details("recipes_created", 0)
       /\ db.stages.stage_2.status = "skipped"
       /\ db.recipes = <<>>
       /\ deduction_calls = <<>>

C2_Witness ==
    /\ pc = "returned"
    /\ Len(extraction_results) >= 2
    /\ \A i \in DOMAIN extraction_results : LacksName(extraction_results[i])
    /\ db.stages.stage_2.status = "skipped"

\* C3: if a deduction call or the storing of its ingredients raises, in
\* the first or the second batch, process_upload does nothing more than its
\* except handler and exits raising that exception, with stage 2 failed
\* carrying the exception text, the upload failed and never completed, and
\* stage 1 still completed.
C3_Stage2FailureIsFatal ==
    exc.at \in {"_call_recipe_deduction", "_store_deduced_ingredients"} =>
        /\ pc \in {"stage2_raising", "process_raised", "responded", "fetched"}
        /\ db.upload.status # "completed"
        /\ committed.upload.status # "completed"
        /\ pc = "process_raised" =>
              /\ db.stages.stage_2.status = "failed"
              /\ db.stages.stage_2.error_message = exc.msg
              /\ db.upload.status = "failed"
              /\ db.stages.stage_1.status = "completed"

C3_Witness ==
    /\ pc = "process_raised"
    /\ exc.at = "_store_deduced_ingredients"
    /\ Len(deduction_calls) = 2
    /\ db.stages.stage_2.status = "failed"

\* C4: after a create_menu_upload request failed because the extraction or
\* a deduction call raised, get_menu_upload finds the upload, failed, and
\* its failing stage failed with the exception text.
C4_FailureReadableAfterwards ==
    (pc = "fetched" /\ exc.at \in {"_call_extraction_service", "_call_recipe_deduction"})
    => /\ fetched.status_code = 200
       /\ fetched.upload.status = "failed"
       /\ LET stage == IF exc.at = "_call_extraction_service"
                       THEN fetched.stages.stage_1 ELSE fetched.stages.stage_2
          IN stage.status = "failed" /\ stage.error_message = exc.msg

\* The positions at which the next step is one of create_upload or
\* process_upload.
ServicePcs ==
    {"start", "created", "extracting", "stage1_raising", "stage1_items",
     "stage1_done", "deducing", "storing", "stage2_raising", "stage2_stored",
     "finishing"}

\* The state machines as the specification states them.
StatedUploadStep(a, b) ==
    \/ a = b
    \/ a = "absent" /\ b = "pending"
    \/ a = "pending" /\ b = "processing"
    \/ a = "processing" /\ b \in {"completed", "failed"}

StatedStageStep(a, b) ==
    \/ a = b
    \/ a = "absent" /\ b = "pending"
    \/ a = "pending" /\ b = "running"
    \/ a = "running" /\ b \in {"completed", "failed", "skipped"}

StatedStep ==
    pc \in ServicePcs =>
        /\ StatedUploadStep(db.upload.status, db'.upload.status)
        /\ \A st \in {"stage_0", "stage_1", "stage_2"} :
               StatedStageStep(db.stages[st].status, db'.stages[st].status)

\* C5 as stated: every status change of create_upload and process_upload
\* is pending -> processing -> completed | failed for the upload and
\* pending -> running -> completed | failed | skipped for each stage.
C5_StatedStateMachines == [][StatedStep]_vars

CodeStep ==
    pc \in ServicePcs =>
        /\ LET a == db.upload.status  b == db'.upload.status
           IN \/ a = b
              \/ a = "absent" /\ b = "processing"
              \/ a = "processing" /\ b \in {"completed", "failed"}
        /\ LET a == db.stages.stage_0.status  b == db'.stages.stage_0.status
           IN a = b \/ (a = "absent" /\ b = "completed")
        /\ LET a == db.stages.stage_1.status  b == db'.stages.stage_1.status
           IN \/ a = b
              \/ a = "absent" /\ b = "pending"
              \/ a = "pending" /\ b = "running"
              \/ a = "running" /\ b \in {"completed", "failed"}
        /\ LET a == db.stages.stage_2.status  b == db'.stages.stage_2.status
           IN \/ a = b
              \/ a = "absent" /\ b = "pending"
              \/ a = "pending" /\ b \in {"running", "skipped"}
              \/ a = "running" /\ b \in {"completed", "failed"}

\* C5 as the code has it: the upload is created processing and goes to
\* completed or failed from there; stage 0 is created completed; stage 1
\* goes pending -> running -> completed | failed; stage 2 goes
\* pending -> running -> completed | failed, or pending -> skipped without
\* ever running.
C5_StateMachines == [][CodeStep]_vars

C5_Witness ==
    /\ pc = "returned"
    /\ db.upload.status = "completed"
    /\ db.stages.stage_0.status = "completed"
    /\ ~db.stages.stage_0.started_at
    /\ db.stages.stage_2.status = "skipped"
    /\ ~db.stages.stage_2.started_at

\* C6: when a service URL is not configured the request fails with 503
\* and, at the moment the error is raised, nothing has been mutated: no
\* stage is running or failed, the upload status is unchanged, no recipe
\* or section exists.
C6_ConfigErrorBeforeAnyMutation ==
    /\ (pc \in {"stage1_raising", "stage2_raising"} /\ exc.code = 503) =>
           /\ db.upload.status = "processing"
           /\ db.stages.stage_1.status = "pending"
           /\ db.stages.stage_2.status = "pending"
           /\ db.recipes = <<>>
           /\ db.sections = <<>>
    /\ (pc = "responded" /\ exc.code = 503) => response.status_code = 503

\* C7: with N >= 1 recipes created, stage 2 calls the deduction service
\* once when N <= 5 and at most twice otherwise; the first call carries the
\* first 5 recipes in creation order, the second the remaining N - 5 and is
\* made only after the first batch was stored; every recipe is sent exactly
\* once when stage 2 succeeds; no call is made after a failure.
C7_DeductionBatches ==
    LET N == Len(created_recipes)
        first == IF N <= test_batch_size THEN created_recipes
                 ELSE SubSeq(created_recipes, 1, test_batch_size)
        rest == SubSeq(created_recipes, test_batch_size + 1, N)
    IN /\ Len(deduction_calls) <= (IF N <= test_batch_size THEN 1 ELSE 2)
       /\ Len(deduction_calls) >= 1 => deduction_calls[1].recipes = first
       /\ Len(deduction_calls) >= 2 => deduction_calls[2].recipes = rest
       /\ \A i \in DOMAIN deduction_calls :
              /\ deduction_calls[i].stored_before = i - 1
              /\ ~deduction_calls[i].failed_before
       /\ (N >= 1 /\ pc = "returned") =>
              /\ Len(deduction_calls) = (IF N <= test_batch_size THEN 1 ELSE 2)
              /\ first \o (IF N <= test_batch_size THEN <<>> ELSE rest) = created_recipes
       /\ (N >= 1 /\ pc = "process_raised" /\ exc.at # "process_upload") =>
              Len(deduction_calls) >= 1

C7_Witness ==
    /\ pc = "returned"
    /\ Len(created_recipes) = test_batch_size + 1
    /\ Len(deduction_calls) = 2
    /\ Len(deduction_calls[1].recipes) = test_batch_size
    /\ Len(deduction_calls[2].recipes) = 1

(***************************************************************************)
(* Properties of _store_deduced_ingredients (SpecStore: created_recipes is *)
(* the batch, payload the response, db.lines the recipe_ingredient rows).  *)
(***************************************************************************)
BatchIds == {created_recipes[i].recipe_id : i \in DOMAIN created_recipes}

\* The recipe of the batch that carries the entry's name, letter case
\* aside: the last one when several do; 0 when none does.
NameTarget(entry) ==
    LET hits == {i \in DOMAIN created_recipes :
                     /\ entry.name # NULL
                     /\ lower(created_recipes[i].name) = lower(strip(entry.name))}
    IN IF hits = {} THEN 0
       ELSE created_recipes[CHOOSE i \in hits : \A j \in hits : j <= i].recipe_id

\* The recipe the claim gives an entry's ingredients to.
ClaimedTarget(entry) ==
    IF entry.idKind = "int" /\ entry.recipe_id \in BatchIds
    THEN entry.recipe_id
    ELSE NameTarget(entry)

IsNamedIngredient(ingredient) ==
    /\ ingredient.isDict
    /\ ingredient.name # NULL
    /\ strip(ingredient.name) # ""

\* The ingredients of a response that have a name, each with the recipe
\* the claim gives it to, in response order.
RECURSIVE ClaimedLines(_)
ClaimedLines(entries) ==
    IF entries = <<>> THEN <<>>
    ELSE LET entry == Head(entries)
             named == SelectSeq(entry.ingredients, IsNamedIngredient)
         IN (IF ClaimedTarget(entry) = 0 THEN <<>>
             ELSE [i \in DOMAIN named |->
                      [recipe_id |-> ClaimedTarget(entry), input |-> named[i]]])
            \o ClaimedLines(Tail(entries))

\* C8: an entry whose recipe_id is the id of a recipe of the batch gives
\* its ingredients to that recipe whatever its name is; the name decides
\* only when the recipe_id is absent or is no id of the batch.
C8_RecipeIdWinsOverName ==
    pc = "stage2_stored" =>
        LET claimed == ClaimedLines(payload.recipes)
        IN /\ Len(db.lines) = Len(claimed)
           /\ \A i \in DOMAIN claimed : db.lines[i].recipe_id = claimed[i].recipe_id

C8_Witness ==
    /\ pc = "stage2_stored"
    /\ \E i \in DOMAIN payload.recipes :
           LET entry == payload.recipes[i]
           IN /\ entry.idKind = "int"
              /\ entry.recipe_id \in BatchIds
              /\ NameTarget(entry) \notin {0, entry.recipe_id}
              /\ \E k \in DOMAIN db.lines : db.lines[k].recipe_id = entry.recipe_id
              /\ \A k \in DOMAIN db.lines : db.lines[k].recipe_id # NameTarget(entry)

\* C9: a malformed element of a deduction response that is a JSON object
\* is skipped and stage 2 still ends completed; stage 2 ends failed only
\* when a deduction call itself raised.
C9_MalformedElementsAreSkipped ==
    /\ (ProcessExited /\ db.stages.stage_2.status = "failed") =>
           exc.at = "_call_recipe_deduction"
    /\ (ProcessExited /\ deduction_calls # <<>> /\ exc.at # "_call_recipe_deduction") =>
           db.stages.stage_2.status = "completed"

\* The text _normalize_predicted_allergens reads a candidate's marker from.
MarkerText(candidate) ==
    IF candidate.isDict THEN py_or(candidate.allergen, candidate.name)
    ELSE candidate.allergen

\* The labels of the canonical entries that have the marker, trimmed and
\* lower-cased, as label, alias or legacy code.
LabelsByKey(text) ==
    {CANONICAL_DATA[i].label : i \in
        {j \in DOMAIN CANONICAL_DATA :
            text # NULL /\ lower(strip(text)) \in alias_keys(CANONICAL_DATA[j])}}

\* The labels of the canonical entries whose marker id the text, trimmed
\* and lower-cased, is.
LabelsById(text) ==
    {CANONICAL_DATA[i].label : i \in
        {j \in DOMAIN CANONICAL_DATA :
            text # NULL /\ lower(strip(text)) = CANONICAL_DATA[j].slug}}

StoredLabels(line) ==
    {line.allergens.entries[k].allergen : k \in DOMAIN line.allergens.entries}

LinkedCodes(line) ==
    {l.allergen_code : l \in {x \in db.links : x.ingredient_id = line.ingredient_id}}

CodeOfLabel(label) == "llm:" \o replace_space_dash(lower(label))

\* Every allergen stored or linked for line i comes from a marker that
\* Labels accepts; the ingredient of the line is stored.
OnlyAcceptedMarkersStored(Labels(_)) ==
    pc = "stage2_stored" =>
        LET claimed == ClaimedLines(payload.recipes)
        IN /\ Len(db.lines) = Len(claimed)
           /\ \A i \in DOMAIN claimed :
                  LET accepted ==
                          UNION {Labels(MarkerText(c)) :
                                     c \in Range(claimed[i].input.allergens.items)}
                  IN /\ StoredLabels(db.lines[i]) \subseteq accepted
                     /\ LinkedCodes(db.lines[i]) \subseteq
                            {CodeOfLabel(label) : label \in accepted}
                     /\ \E g \in Range(db.ingredients) :
                            g.id = db.lines[i].ingredient_id

\* C10 as stated: a marker that is not one of the 16 canonical marker ids
\* leaves no entry in the line's allergen payload and no
\* ingredient-allergen link, and raises nothing; the ingredient is stored.
C10_OnlyMarkerIdsStored == OnlyAcceptedMarkersStored(LabelsById)

\* C10 as the code has it: a marker that, trimmed and lower-cased, is no
\* label, alias or legacy code of a canonical entry leaves no entry in the
\* line's allergen payload and no ingredient-allergen link, and raises
\* nothing; the ingredient is stored.
C10_UnknownMarkersDropped == OnlyAcceptedMarkersStored(LabelsByKey)

C10_Witness ==
    /\ pc = "stage2_stored"
    /\ \E i \in DOMAIN db.lines :
           LET claimed == ClaimedLines(payload.recipes)
           IN /\ i \in DOMAIN claimed
              /\ claimed[i].input.allergens.items # <<>>
              /\ \E c \in Range(claimed[i].input.allergens.items) :
                     LabelsByKey(MarkerText(c)) = {}
              /\ \E c \in Range(claimed[i].input.allergens.items) :
                     LabelsByKey(MarkerText(c)) # {}
              /\ StoredLabels(db.lines[i]) # {}
              /\ LinkedCodes(db.lines[i]) # {}


(***************************************************************************)
(* Allergen reconciliation and the registry (SpecAllergens).               *)
(***************************************************************************)
\* The canonical entry a stored link resolves to (dal.py:1222-1226).
LinkCanonical(link) ==
    canonical_or(canonicalize_allergen(link.code),
        canonical_or(canonical_allergen_from_label(link.name),
                     canonicalize_allergen(link.name)))

\* The code a stored link is listed under: its canonical slug, or its own
\* code, lower-cased, when it resolves to no canonical entry.
LinkKey(link) ==
    IF LinkCanonical(link).slug # NULL THEN LinkCanonical(link).slug
    ELSE lower(link.code)

\* The slug an override entry resolves to, NULL when it resolves to none.
OverrideSlug(entry) ==
    IF entry.kind = "number" THEN NULL
    ELSE canonical_or(canonical_allergen_from_label(override_label(entry)),
                      canonicalize_allergen(override_label(entry))).slug

Reconciled ==
    call.fn = "_process_ingredient_allergens" /\ result # NoResult

ResultCodes == {lower(result.value[i].code) : i \in DOMAIN result.value}

\* C11: with the override payload absent the result lists exactly the
\* stored links' allergens; with an override payload present, the empty
\* list included, every allergen of the result comes from an override
\* entry and none from the stored links alone.
C11_OverrideReplacesStored ==
    Reconciled =>
        IF call.payload.kind = "none"
        THEN /\ result.returned
             /\ ResultCodes = {LinkKey(l) : l \in Range(call.links)}
        ELSE /\ ResultCodes \subseteq
                    {OverrideSlug(e) : e \in Range(call.payload.items)} \ {NULL}
             /\ (call.payload.items = <<>> => result = Returned(<<>>))

C11_Witness ==
    /\ Reconciled
    /\ result.returned
    /\ call.payload.kind = "list"
    /\ Len(call.links) = 2
    /\ ResultCodes = {"milk"}
    /\ {LinkKey(l) : l \in Range(call.links)} = {"peanuts", "cereals_gluten"}

\* The first element of a sequence whose key is k.
FirstWithKey(seq, Key(_), k) ==
    seq[CHOOSE i \in DOMAIN seq :
            /\ Key(seq[i]) = k
            /\ \A j \in DOMAIN seq : Key(seq[j]) = k => i <= j]

PredictedSlug(candidate) == canonicalize_allergen(MarkerText(candidate)).slug

PredictedCertainty(candidate) ==
    IF candidate.isDict THEN candidate.certainty ELSE NULL

SlugOfLabel(label) == canonical_allergen_from_label(label).slug

\* C12: the list made for an ingredient line has at most one entry per
\* canonical slug (per code, for stored links that resolve to no canonical
\* entry); the entry of a slug is made from the first stored link, override
\* entry or predicted marker, in input order, that resolves to the slug and
\* carries that one's certainty.
C12_FirstPerSlugWins ==
    /\ (Reconciled /\ result.returned) =>
           /\ \A i, j \in DOMAIN result.value :
                  result.value[i].code = result.value[j].code => i = j
           /\ \A i \in DOMAIN result.value :
                  LET e == result.value[i]
                  IN IF call.payload.kind = "none"
                     THEN e.certainty =
                              certainty_to_ui(
                                  FirstWithKey(call.links, LinkKey, lower(e.code)).certainty)
                     ELSE e.certainty =
                              certainty_to_ui(
                                  override_certainty(
                                      FirstWithKey(call.payload.items, OverrideSlug, e.code)))
    /\ (call.fn = "_normalize_predicted_allergens" /\ result # NoResult) =>
           LET entries == result.value.entries
           IN /\ \A i, j \in DOMAIN entries :
                     entries[i].allergen = entries[j].allergen => i = j
              /\ {SlugOfLabel(entries[i].allergen) : i \in DOMAIN entries} =
                     {PredictedSlug(c) : c \in Range(call.payload.items)} \ {NULL}
              /\ \A i \in DOMAIN entries :
                     entries[i].certainty =
                         normalize_certainty(
                             PredictedCertainty(
                                 FirstWithKey(call.payload.items, PredictedSlug,
                                              SlugOfLabel(entries[i].allergen))))

C12_Witness ==
    /\ Reconciled
    /\ result.returned
    /\ call.payload.kind = "none"
    /\ Len(call.links) = 2
    /\ LinkKey(call.links[1]) = LinkKey(call.links[2])
    /\ certainty_to_ui(call.links[1].certainty) # certainty_to_ui(call.links[2].certainty)
    /\ Len(result.value) = 1
    /\ result.value[1].certainty = certainty_to_ui(call.links[1].certainty)

\* C13: a response that is a JSON array cut off after one or more complete
\* top-level objects gives exactly those objects, in order, and never the
\* empty list.
C13_TruncatedArraySalvaged ==
    (call.fn = "extract_from_payload" /\ call.payload.truncated /\ result.returned)
        => result.value = call.links

\* The lower-cased label, aliases and legacy codes of a canonical entry.
KeysOf(entry) ==
    {lower(entry.label)}
        \cup {lower(entry.aliases[k]) : k \in DOMAIN entry.aliases}
        \cup {lower(entry.legacy_codes[k]) : k \in DOMAIN entry.legacy_codes}

\* C14: canonicalize_allergen(s) returns without raising, and returns None
\* or a canonical entry one of whose lower-cased label, aliases and legacy
\* codes is the trimmed, lower-cased s; no key belongs to two entries and
\* slugs are unique; PEANUTS, Peanut and arachis in any letter case resolve
\* to the one entry for peanuts.
C14_CanonicalizeIsTotalAndKeyed ==
    (call.fn = "canonicalize_allergen" /\ result.returned) =>
        /\ result.exc = NoExc
        /\ \/ result.value = NoCanonical
           \/ \E i \in DOMAIN CANONICAL_DATA :
                 /\ result.value = CANONICAL_DATA[i]
                 /\ call.text # NULL
                 /\ lower(strip(call.text)) \in KeysOf(CANONICAL_DATA[i])
        /\ \A i, j \in DOMAIN CANONICAL_DATA :
              i # j => /\ KeysOf(CANONICAL_DATA[i]) \cap KeysOf(CANONICAL_DATA[j]) = {}
                       /\ CANONICAL_DATA[i].slug # CANONICAL_DATA[j].slug
        /\ call.text \in {"PEANUTS", "Peanut", "ARACHIS", "peanut", "arachis"}
              => result.value.slug = "peanuts"

C14_Witness ==
    /\ call.fn = "canonicalize_allergen"
    /\ call.text = "ARACHIS"
    /\ result.returned
    /\ result.value.slug = "peanuts"

\* The UI values of a certainty, and the default among them.
UiCertainties == {"confirmed", "likely", "possible", "predicted"}

\* C15: certainty_to_ui returns, for every input, one of confirmed, likely,
\* possible and predicted; None, the empty text and every text that is no
\* key of the UI map give predicted; every value normalize_certainty
\* returns for some text gives a value other than predicted.
C15_CertaintyToUiIsTotal ==
    (call.fn = "certainty_to_ui" /\ result.returned) =>
        /\ result.exc = NoExc
        /\ result.value \in UiCertainties
        /\ (call.text \in {NULL, ""} \/ call.text \notin DOMAIN UI_CERTAINTY_MAP)
              => result.value = "predicted"
        /\ (call.text # NULL /\ \E t \in CertaintyTexts : normalize_certainty(t) = call.text)
              => result.value \in UiCertainties \ {"predicted"}

C15_Witness ==
    /\ call.fn = "certainty_to_ui"
    /\ call.text = "inferred"
    /\ result.returned
    /\ result.value = "likely"

\* An extracted item that carries a name or a title that is not blank.
HasNameOrTitle(item) ==
    item.isDict /\ (safe_string(item.name) # NULL \/ safe_string(item.title) # NULL)

NamedItems == SelectSeq(extraction_results, HasNameOrTitle)

\* The section name an item's category stands for.
CategoryName(item) ==
    IF safe_string(item.category) = NULL THEN "Uncategorized"
    ELSE safe_string(item.category)

\* C16: once stage 1 is completed, every extracted item with a name or a
\* title has exactly one recipe, in status needs_review, linked to the one
\* section its category names (compared without regard to case,
\* Uncategorized when absent) and to the upload by one provenance link,
\* and the other items have none; on normal return the created recipe
\* ids, the provenance links and recipes_created describe the same recipes.
C16_OneRecipePerNamedItem ==
    db.stages.stage_1.status = "completed" =>
        /\ Len(db.recipes) = Len(NamedItems)
        /\ \A i \in DOMAIN db.recipes :
              /\ db.recipes[i].status = "needs_review"
              /\ Len(db.recipes[i].section_ids) = 1
              /\ i \in DOMAIN NamedItems =>
                    lower(db.sections[db.recipes[i].section_ids[1]].name)
                        = lower(CategoryName(NamedItems[i]))
              /\ Cardinality({k \in DOMAIN db.upload_recipes :
                                 db.upload_recipes[k] = db.recipes[i].id}) = 1
        /\ pc = "returned" =>
              /\ [i \in DOMAIN created_recipes |-> created_recipes[i].recipe_id]
                    = db.upload_recipes
              /\ db.stages.stage_1.details
                    = Details("recipes_created", Len(db.upload_recipes))

\* C17: when process_upload has returned normally after creating at least
\* one recipe, stage 2 is completed with ingredients_added equal to the
\* number of ingredient lines attached to the created recipes during the
\* call, and the upload is completed with no error message.
C17_Stage2CountsAttachedLines ==
    (pc = "returned" /\ created_recipes # <<>>) =>
        /\ db.stages.stage_2.status = "completed"
        /\ db.stages.stage_2.details = Details("ingredients_added", Len(db.lines))
        /\ \A k \in DOMAIN db.lines :
              \E i \in DOMAIN created_recipes :
                 created_recipes[i].recipe_id = db.lines[k].recipe_id
        /\ db.upload.status = "completed"
        /\ db.upload.error_message = NULL

C17_Witness ==
    /\ pc = "returned"
    /\ created_recipes # <<>>
    /\ Len(db.lines) >= 2
    /\ db.stages.stage_2.details = Details("ingredients_added", Len(db.lines))

\* Both requests have ended.
RaceEnded == \A r \in Requests : call[r].pc \in {"completed", "failed"}

\* Both requests looked the section up and did not find it.
BothMissed == \A r \in Requests : call[r].missed

RaceName(r) == cleaned_section_name(safe_string(call[r].category))

\* The committed sections whose name is the given one, without regard to case.
SectionsNamed(name) ==
    {i \in DOMAIN rows.sections : lower(rows.sections[i].name) = lower(name)}

C19_StoredCertaintyIsReported ==
    (rows.tables = "links" /\ result.returned) =>
        LET stored == SelectSeq(rows.links, LAMBDA l : l.ingredient_id = 1)
        IN /\ Len(result.value) = Len(stored)
           /\ \A i \in DOMAIN stored :
                 /\ result.value[i].code = AllergenRows[stored[i].allergen_id].code
                 /\ result.value[i].certainty = stored[i].certainty

\* C22: reconciliation returns for every list of stored links and every
\* override payload; an override entry that resolves to no canonical
\* allergen is left out and the entries that resolve are returned.
C22_ReconciliationNeverRaises ==
    Reconciled =>
        /\ result.returned
        /\ result.exc = NoExc
        /\ call.payload.kind # "none" =>
              ResultCodes = {OverrideSlug(e) : e \in Range(call.payload.items)} \ {NULL}

\* The one value of a payload that is neither a list nor an object, as an
\* element of a list.
ScalarEntry(allergens) ==
    IF allergens.kind = "number" THEN OverrideEntry("number", NULL, NULL, NULL, NULL)
    ELSE allergens.items[1]

\* C23: a payload that is neither a list nor an object gives the result of
\* the list holding that one value, in reconciliation and in the
\* normalisation of predicted allergens.
C23_ScalarIsSingletonList ==
    /\ (Reconciled /\ call.payload.kind \in {"text", "number"}) =>
           result = process_ingredient_allergens(
                        call.links,
                        OverridePayload("list", <<ScalarEntry(call.payload)>>))
    /\ (call.fn = "_normalize_predicted_allergens" /\ result # NoResult
            /\ call.payload.kind = "scalar") =>
           result = Returned(normalize_predicted_allergens(RawList(call.payload.items)))

\* C24: each marker id of the deduction prompt that the deduction service
\* returns as an allergen of an ingredient is resolved to the canonical
\* entry of that id, is in the stored allergen payload of the ingredient's
\* line and is linked to the ingredient.
C24_PromptMarkerIdsAreKept ==
    pc = "stage2_stored" =>
        LET claimed == ClaimedLines(payload.recipes)
        IN \A i \in DOMAIN claimed \cap DOMAIN db.lines :
              \A c \in Range(claimed[i].input.allergens.items) :
                 \A m \in Range(CANONICAL_ALLERGEN_MARKERS_PROMPT) :
                    MarkerText(c) = m.id =>
                       /\ canonicalize_allergen(m.id).slug = m.id
                       /\ m.label \in StoredLabels(db.lines[i])
                       /\ CodeOfLabel(m.label) \in LinkedCodes(db.lines[i])

\* The recipe that the last call of create_recipe or update_recipe made or
\* updated, and the list of section ids the call was given.
SectionsAssigned ==
    /\ call.fn \in {"create_recipe", "update_recipe"}
    /\ call.menu_section_ids.given
    /\ call.fn = "update_recipe" => call.recipe_id = 1

OwnSectionIds == {s.id : s \in {r \in Range(SectionRows) : r.restaurant_id = 1}}

FirstIndex(section_ids, section_id) ==
    CHOOSE i \in DOMAIN section_ids :
        /\ section_ids[i] = section_id
        /\ \A j \in 1..(i - 1) : section_ids[j] # section_id

\* C21 as stated: the position of a link is the index of the first
\* occurrence of its section id in menu_section_ids.
C21_PositionIsFirstIndex ==
    (SectionsAssigned /\ Range(call.menu_section_ids.ids) \subseteq OwnSectionIds) =>
        /\ result.returned
        /\ rows.recipes[1].section_links =
               {[section_id |-> s,
                 position |-> FirstIndex(call.menu_section_ids.ids, s) - 1] :
                    s \in Range(call.menu_section_ids.ids)}

\* C21: after create_recipe or update_recipe with menu_section_ids naming
\* only sections of the recipe's restaurant, the recipe's links are exactly
\* the distinct ids of the list, links to other sections being removed,
\* and the position of a link is the number of distinct ids that occur
\* before the first occurrence of its id; a list with an unknown id
\* or a section of another restaurant raises ValueError.
C21_SectionLinksReplaced ==
    SectionsAssigned =>
        IF Range(call.menu_section_ids.ids) \subseteq OwnSectionIds
        THEN /\ result.returned
             /\ {l.section_id : l \in rows.recipes[1].section_links} =
                    Range(call.menu_section_ids.ids)
             /\ \A l \in rows.recipes[1].section_links :
                   /\ l.position =
                         Cardinality({call.menu_section_ids.ids[j] :
                             j \in 1..(FirstIndex(call.menu_section_ids.ids,
                                                  l.section_id) - 1)})
                   /\ \A other \in rows.recipes[1].section_links :
                         other.section_id = l.section_id => other = l
        ELSE /\ ~result.returned
             /\ result.exc.type = "ValueError"

C21_Witness ==
    /\ call.fn = "update_recipe"
    /\ call.recipe_id = 1
    /\ call.menu_section_ids.ids = <<2, 2, 1>>
    /\ call.before[1].section_links = {[section_id |-> 1, position |-> 0]}
    /\ rows.recipes[1].section_links =
           {[section_id |-> 2, position |-> 0], [section_id |-> 1, position |-> 1]}

\* C25: whenever process_upload has exited, by returning or by raising, the
\* upload is completed or failed and no stage is running.
C25_ExitLeavesNothingRunning ==
    ProcessExited =>
        /\ db.upload.status \in {"completed", "failed"}
        /\ \A stage \in DOMAIN db.stages : db.stages[stage].status # "running"

\* The upload row and its stage rows exist in the request's session:
\* create_upload has run and the request was not rolled back.
UploadCreated == db.upload.status # "absent"

StageEnded(stage) == db.stages[stage].status \in {"completed", "skipped"}

\* C26: in every state after create_upload, through process_upload: stage 0
\* is completed; stage 2 has left pending only if stage 1 is completed; the
\* upload is completed only if stage 1 is completed and stage 2 is completed
\* or skipped; the upload is failed exactly if exactly one of stage 1 and
\* stage 2 is failed; the upload's error_message is set exactly if the
\* upload is failed; stageN_completed_at is set only if stage N is
\* completed or skipped.
C26_UploadAndStagesAgree ==
    UploadCreated =>
        /\ db.stages.stage_0.status = "completed"
        /\ db.stages.stage_2.status # "pending" =>
              db.stages.stage_1.status = "completed"
        /\ db.upload.status = "completed" =>
              /\ db.stages.stage_1.status = "completed"
              /\ StageEnded("stage_2")
        /\ db.upload.status = "failed" <=>
              (db.stages.stage_1.status = "failed") #
                  (db.stages.stage_2.status = "failed")
        /\ db.upload.error_message # NULL <=> db.upload.status = "failed"
        /\ db.upload.stage0_completed_at => StageEnded("stage_0")
        /\ db.upload.stage1_completed_at => StageEnded("stage_1")
        /\ db.upload.stage2_completed_at => StageEnded("stage_2")

C26_Witness ==
    /\ pc = "process_raised"
    /\ db.upload.status = "failed"
    /\ db.upload.error_message # NULL
    /\ db.stages.stage_1.status = "completed"
    /\ db.upload.stage1_completed_at
    /\ db.stages.stage_2.status = "failed"
    /\ ~db.upload.stage2_completed_at

\* The recipes the last deduction call was sent, and whether an entry of
\* its response names one of them by recipe_id or by name.
SentRecipes == deduction_calls[Len(deduction_calls)].recipes

SentIds == {SentRecipes[i].recipe_id : i \in DOMAIN SentRecipes}

MatchesSent(entry) ==
    /\ entry.isDict
    /\ \/ entry.idKind = "int" /\ entry.recipe_id \in SentIds
       \/ /\ entry.name # NULL
          /\ \E i \in DOMAIN SentRecipes :
                lower(SentRecipes[i].name) = lower(strip(entry.name))

\* C27: storing a deduction response attaches ingredient lines only to
\* recipes that were sent in that same deduction call: an entry whose
\* recipe_id and name match no recipe of the batch attaches nothing, even
\* when its recipe_id is the id of another existing recipe, and the lines
\* and rows of the recipes outside the batch are left as they were.
C27_OnlyBatchRecipesAttached ==
    [][pc = "storing" =>
          /\ db'.recipes = db.recipes
          /\ Len(db'.lines) >= Len(db.lines)
          /\ SubSeq(db'.lines, 1, Len(db.lines)) = db.lines
          /\ \A k \in (Len(db.lines) + 1)..Len(db'.lines) :
                db'.lines[k].recipe_id \in SentIds
          /\ (\A i \in DOMAIN payload.recipes : ~MatchesSent(payload.recipes[i])) =>
                db'.lines = db.lines /\ db'.ingredients = db.ingredients]_vars

C27_Witness ==
    /\ pc = "deducing"
    /\ batch_no = 2
    /\ Len(db.recipes) > test_batch_size
    /\ \E i \in DOMAIN payload.recipes :
          /\ payload.recipes[i].idKind = "int"
          /\ payload.recipes[i].recipe_id = test_batch_size + 1
          /\ payload.recipes[i].ingredients # <<>>
          /\ ~MatchesSent(payload.recipes[i])
    /\ db.lines # <<>>
    /\ \A k \in DOMAIN db.lines : db.lines[k].recipe_id <= test_batch_size

ArchiveSections ==
    {i \in DOMAIN rows.sections : lower(strip(rows.sections[i].name)) = "archive"}

\* C28: once save_restaurant_menu_sections has returned, and after every
\* later call of the three section functions, the primary menu has exactly
\* one Archive section and its position is greater than the position of
\* every other section of the menu.
C28_ArchiveIsLast ==
    (rows.tables = "menu_section" /\ call.saved) =>
        /\ Cardinality(ArchiveSections) = 1
        /\ \A a \in ArchiveSections :
              \A i \in DOMAIN rows.sections \ {a} :
                 rows.sections[i].position < rows.sections[a].position

\* The last request updated a line that existed before it, and the request
\* carried no allergens.
LineUpdated(i) ==
    /\ rows.tables = "recipe_ingredient"
    /\ call.fn \in {"add_recipe_ingredient", "update_recipe_ingredient"}
    /\ i \in DOMAIN call.before
    /\ call.before[i].ingredient_id = call.ingredient_data.ingredient_id
    /\ call.ingredient_data.allergens = NoAllergens

\* C29: updating an existing line through either route without giving
\* allergens leaves the line's stored allergen override as it was; only
\* quantity, unit, notes, confirmed and a provided substitution change.
C29_UpdateKeepsAllergens ==
    \A i \in DOMAIN rows.lines :
        LineUpdated(i) =>
            /\ rows.lines[i].allergens = call.before[i].allergens
            /\ rows.lines[i].recipe_id = call.before[i].recipe_id
            /\ rows.lines[i].ingredient_id = call.before[i].ingredient_id
            /\ ~call.ingredient_data.substitution_set =>
                  rows.lines[i].substitution = call.before[i].substitution

SameTriple(link, other) ==
    /\ link.ingredient_id = other.ingredient_id
    /\ link.allergen_id = other.allergen_id
    /\ link.source = other.source

\* C30: after every sequence of link_ingredient_allergen and
\* add_ingredient_allergen calls in one session there is at most one link
\* per (ingredient, allergen, source); a call for a triple that has a link
\* changes that link's certainty and nothing else, and a call for a triple
\* without one, such as an existing pair with another source, adds one link
\* and leaves the others as they were.
C30_OneLinkPerTriple ==
    rows.tables = "links" =>
        /\ \A i, j \in DOMAIN rows.links :
              SameTriple(rows.links[i], rows.links[j]) => i = j
        /\ call.last.fn # "none" =>
              LET hit == {i \in DOMAIN call.before :
                             SameTriple(call.before[i], call.last)}
              IN IF hit # {}
                 THEN /\ Len(rows.links) = Len(call.before)
                      /\ \A i \in DOMAIN rows.links :
                            rows.links[i] =
                                IF i \in hit
                                THEN [call.before[i] EXCEPT
                                         !.certainty = call.last.certainty]
                                ELSE call.before[i]
                 ELSE /\ Len(rows.links) = Len(call.before) + 1
                      /\ SubSeq(rows.links, 1, Len(call.before)) = call.before
                      /\ SameTriple(rows.links[Len(rows.links)], call.last)
                      /\ rows.links[Len(rows.links)].certainty = call.last.certainty

C30_Witness ==
    /\ rows.tables = "links"
    /\ call.last.fn = "add_ingredient_allergen"
    /\ call.last.source = "llm"
    /\ Len(call.before) = 1
    /\ call.before[1].source = "off"
    /\ call.before[1].ingredient_id = call.last.ingredient_id
    /\ call.before[1].allergen_id = call.last.allergen_id
    /\ call.before[1].certainty # call.last.certainty
    /\ Len(rows.links) = 2
    /\ rows.links[1] = call.before[1]

====
